---- MODULE Spec2Model ----
(***************************************************************************)
(* kv: a key-value store kept in one append-only text log.                 *)
(*                                                                         *)
(* Text (keys, lines, the file) is a sequence of one-character strings,    *)
(* so that the character-level code (validate_key, split_key_value,        *)
(* BufRead::lines, the serde_json encoding of values) is modelled by what  *)
(* it does to the characters.                                              *)
(***************************************************************************)
EXTENDS Integers, Sequences, FiniteSets, TLC

(***************************************************************************)
(* Characters.  A text is the sequence of its bytes (UTF-8), each byte a   *)
(* string: the character itself for the ASCII characters that can be       *)
(* written in a TLA+ string, and a name for the others: "GRAVE" for the    *)
(* grave accent U+0060, and "x" with two hexadecimal digits for the        *)
(* control characters, for U+007F and for the bytes 0x80 .. 0xFF of the    *)
(* characters that are not ASCII.  Ascii lists the printable ASCII         *)
(* characters in code order, U+0020 .. U+007E; code(c) is the value of     *)
(* the byte, which for an ASCII character is its Unicode scalar value.     *)
(***************************************************************************)
ControlBytes ==
    << "x00", "x01", "x02", "x03", "x04", "x05", "x06", "x07", "x08", "\t",
       "\n", "x0B", "\f", "\r", "x0E", "x0F", "x10", "x11", "x12", "x13",
       "x14", "x15", "x16", "x17", "x18", "x19", "x1A", "x1B", "x1C", "x1D",
       "x1E", "x1F" >>

Ascii ==
    << " ", "!", "\"", "#", "$", "%", "&", "'", "(", ")", "*", "+", ",", "-",
       ".", "/", "0", "1", "2", "3", "4", "5", "6", "7", "8", "9", ":", ";",
       "<", "=", ">", "?", "@", "A", "B", "C", "D", "E", "F", "G", "H", "I",
       "J", "K", "L", "M", "N", "O", "P", "Q", "R", "S", "T", "U", "V", "W",
       "X", "Y", "Z", "[", "\\", "]", "^", "_", "GRAVE", "a", "b", "c", "d", "e",
       "f", "g", "h", "i", "j", "k", "l", "m", "n", "o", "p", "q", "r", "s",
       "t", "u", "v", "w", "x", "y", "z", "{", "|", "}", "~" >>

HighBytes ==
    << "x7F", "x80", "x81", "x82", "x83", "x84", "x85", "x86", "x87", "x88",
       "x89", "x8A", "x8B", "x8C", "x8D", "x8E", "x8F", "x90", "x91", "x92",
       "x93", "x94", "x95", "x96", "x97", "x98", "x99", "x9A", "x9B", "x9C",
       "x9D", "x9E", "x9F", "xA0", "xA1", "xA2", "xA3", "xA4", "xA5", "xA6",
       "xA7", "xA8", "xA9", "xAA", "xAB", "xAC", "xAD", "xAE", "xAF", "xB0",
       "xB1", "xB2", "xB3", "xB4", "xB5", "xB6", "xB7", "xB8", "xB9", "xBA",
       "xBB", "xBC", "xBD", "xBE", "xBF", "xC0", "xC1", "xC2", "xC3", "xC4",
       "xC5", "xC6", "xC7", "xC8", "xC9", "xCA", "xCB", "xCC", "xCD", "xCE",
       "xCF", "xD0", "xD1", "xD2", "xD3", "xD4", "xD5", "xD6", "xD7", "xD8",
       "xD9", "xDA", "xDB", "xDC", "xDD", "xDE", "xDF", "xE0", "xE1", "xE2",
       "xE3", "xE4", "xE5", "xE6", "xE7", "xE8", "xE9", "xEA", "xEB", "xEC",
       "xED", "xEE", "xEF", "xF0", "xF1", "xF2", "xF3", "xF4", "xF5", "xF6",
       "xF7", "xF8", "xF9", "xFA", "xFB", "xFC", "xFD", "xFE", "xFF" >>

\* The 256 bytes in order of their value: Bytes[b + 1] is the byte b.
Bytes == ControlBytes \o Ascii \o HighBytes

\* The place of every element of a sequence with no repeats, from 0.
index_table(seq) ==
    [c \in {seq[i] : i \in 1..Len(seq)} |->
        (CHOOSE i \in 1..Len(seq) : seq[i] = c) - 1]

CodeOf == index_table(Bytes)

code(c) == CodeOf[c]

\* lo <= c < hi and lo <= c <= hi, in the order of the table.
between_exclusive(order, lo, c, hi) ==
    order[lo] <= order[c] /\ order[c] < order[hi]
between(order, lo, c, hi) == order[lo] <= order[c] /\ order[c] <= order[hi]

\* How far c is after lo, in the order of the table.
distance(order, lo, c) == order[c] - order[lo]

\* The range pattern written lo..hi, which leaves hi out.
in_range_exclusive(c, lo, hi) == between_exclusive(CodeOf, lo, c, hi)

\* A Rust range pattern lo..=hi on chars.
in_range(c, lo, hi) == between(CodeOf, lo, c, hi)

\* A control character, U+0000 .. U+001F.
is_control(c) == in_range(c, "x00", "x1F")

\* The text of a string literal of the source.
COMMA == ","
NEWLINE == "\n"
NULL_TEXT == << "n", "u", "l", "l" >>
TRUE_TEXT == << "t", "r", "u", "e" >>
FALSE_TEXT == << "f", "a", "l", "s", "e" >>

(***************************************************************************)
(* Values.  The store is generic in its element type T; the repository     *)
(* instantiates it with u8 (tests::fuzz_test), String (tests::unset) and   *)
(* serde_json::Value (the command line program).  A value of any of these  *)
(* is one record shape, and t is its kind:                                 *)
(*   "null", "bool" (b), "str" (s, the bytes of the string);               *)
(*   "num"   an integer of at most nine digits, n;                         *)
(*   "big"   a longer integer that fits u64 or i64: s its digits, b        *)
(*           whether it is negative;                                       *)
(*   "float" an f64, as the decimal s * 10^n: s the digits of the          *)
(*           significand with no zero at either end (none for zero), b     *)
(*           whether it is negative;                                       *)
(*   "arr"   an array, a its elements;                                     *)
(*   "obj"   an object, k its keys in byte order (serde_json::Map is a     *)
(*           BTreeMap) and a the values of the keys.                       *)
(* The decimal of an f64 is the shortest one that reads back as that f64,  *)
(* which is the one serde_json writes for it.                              *)
(***************************************************************************)
JNull ==
    [t |-> "null", n |-> 0, s |-> << >>, b |-> FALSE, a |-> << >>, k |-> << >>]
JNum(n) == [JNull EXCEPT !.t = "num", !.n = n]
JStr(s) == [JNull EXCEPT !.t = "str", !.s = s]
JBool(b) == [JNull EXCEPT !.t = "bool", !.b = b]
JBig(neg, digits) == [JNull EXCEPT !.t = "big", !.s = digits, !.b = neg]
JFloat(neg, digits, exp) ==
    [JNull EXCEPT !.t = "float", !.s = digits, !.n = exp, !.b = neg]
JArr(elements) == [JNull EXCEPT !.t = "arr", !.a = elements]
JObj(keys, values) == [JNull EXCEPT !.t = "obj", !.k = keys, !.a = values]

\* Option<T>
None == [some |-> FALSE, v |-> JNull]
Some(v) == [some |-> TRUE, v |-> v]

(***************************************************************************)
(* Results.  Every Result<_, Error> of the library is one record shape;    *)
(* kind is the Ok payload's kind or the Error variant.                     *)
(***************************************************************************)
ResBase ==
    [kind |-> "Unit", key |-> << >>, value |-> << >>, bool |-> FALSE,
     opt |-> None, map |-> << >>, line_number |-> 0, line |-> << >>,
     cause |-> ""]

OkUnit == ResBase
OkKey(k) == [ResBase EXCEPT !.kind = "Key", !.key = k]
OkPair(k, v) == [ResBase EXCEPT !.kind = "Pair", !.key = k, !.value = v]
OkBool(b) == [ResBase EXCEPT !.kind = "Bool", !.bool = b]
OkOpt(o) == [ResBase EXCEPT !.kind = "Opt", !.opt = o]
OkMap(m) == [ResBase EXCEPT !.kind = "Map", !.map = m]
OkValue(v) == [ResBase EXCEPT !.kind = "Value", !.opt = Some(v)]

ErrorKinds == {"Read", "Write", "InvalidKey"}
is_ok(r) == r.kind \notin ErrorKinds
is_err(r) == r.kind \in ErrorKinds

\* Error::InvalidKey(key.to_string())
InvalidKey(key) == [ResBase EXCEPT !.kind = "InvalidKey", !.key = key]

\* read_err: Error::Read(err.to_string()); the message of the underlying
\* error is kept as its origin only.
read_err(cause) == [ResBase EXCEPT !.kind = "Read", !.cause = cause]

\* write_err: Error::Write(err.to_string())
write_err(cause) == [ResBase EXCEPT !.kind = "Write", !.cause = cause]

\* line_error counting the lines from one.
line_error_one_based(line_number, line) ==
    [ResBase EXCEPT !.kind = "Read", !.cause = "Invalid data as line",
                    !.line_number = line_number + 1, !.line = line]

\* line_error: Error::Read("Invalid data as line {line_number}: <line>")
line_error(line_number, line) ==
    [ResBase EXCEPT !.kind = "Read", !.cause = "Invalid data as line",
                    !.line_number = line_number, !.line = line]

(***************************************************************************)
(* validate_key                                                            *)
(***************************************************************************)
is_key_char(c) ==
    \/ in_range(c, "0", "9")
    \/ in_range(c, "A", "Z")
    \/ in_range(c, "a", "z")
    \/ c = " "
    \/ c = ":"
    \/ c = "/"
    \/ c = "."

\* validate_key letting every key through.
validate_key_unchecked(key) == OkKey(key)

validate_key(key) ==
    IF \A i \in 1..Len(key) : is_key_char(key[i])
    THEN OkKey(key)
    ELSE InvalidKey(key)

(***************************************************************************)
(* split_key_value                                                         *)
(***************************************************************************)
\* line.rsplitn(2, ','), which cuts at the last separator, its pieces put
\* back in the order of the text.
rsplitn2(line, sep) ==
    LET hits == {i \in 1..Len(line) : line[i] = sep}
    IN  IF hits = {}
        THEN << line >>
        ELSE LET final == CHOOSE i \in hits : \A j \in hits : j <= i
             IN  << SubSeq(line, 1, final - 1),
                    SubSeq(line, final + 1, Len(line)) >>

\* line.splitn(2, ','): the pieces the iterator yields, at most two: the
\* text before the first separator and the whole rest after it.
splitn2(line, sep) ==
    LET hits == {i \in 1..Len(line) : line[i] = sep}
    IN  IF hits = {}
        THEN << line >>
        ELSE LET first == CHOOSE i \in hits : \A j \in hits : i <= j
             IN  << SubSeq(line, 1, first - 1),
                    SubSeq(line, first + 1, Len(line)) >>

\* A split that takes a line with no comma as a key with an empty value.
split_key_value_lenient(line, line_number) ==
    LET split == splitn2(line, COMMA)
    IN  IF Len(split) < 2 THEN OkPair(line, << >>)
        ELSE OkPair(split[1], split[2])

split_key_value(line, line_number) ==
    LET split == splitn2(line, COMMA)
    IN  IF Len(split) < 1 THEN line_error(line_number, line)
        ELSE IF Len(split) < 2 THEN line_error(line_number, line)
        ELSE OkPair(split[1], split[2])

(***************************************************************************)
(* The value codec: serde_json::to_string and serde_json::from_str, used   *)
(* by set (line 118), unset (line 76), get (line 132) and load_map (line   *)
(* 141).                                                                   *)
(***************************************************************************)
DigitChars == << "0", "1", "2", "3", "4", "5", "6", "7", "8", "9" >>

is_digit(c) == in_range(c, "0", "9")
digit_value(c) == distance(CodeOf, "0", c)

RECURSIVE itoa(_)
\* The decimal text of an unsigned integer.
itoa(n) ==
    IF n < 10 THEN << DigitChars[n + 1] >>
    ELSE itoa(n \div 10) \o << DigitChars[(n % 10) + 1] >>

\* The decimal text of a signed integer.
itoa_signed(n) == IF n < 0 THEN << "-" >> \o itoa(-n) ELSE itoa(n)

HexChars ==
    << "0", "1", "2", "3", "4", "5", "6", "7", "8", "9",
       "a", "b", "c", "d", "e", "f" >>

zeros(n) == [i \in 1..n |-> "0"]

\* An encoder that escapes nothing.
escape_char_raw(c) == << c >>

\* The JSON escape of one byte of a string: the quote, the backslash and
\* the control characters are escaped, every other byte is written as it
\* is.
escape_char(c) ==
    IF c = "\"" THEN << "\\", "\"" >>
    ELSE IF c = "\\" THEN << "\\", "\\" >>
    ELSE IF c = "x08" THEN << "\\", "b" >>
    ELSE IF c = "\f" THEN << "\\", "f" >>
    ELSE IF c = "\n" THEN << "\\", "n" >>
    ELSE IF c = "\r" THEN << "\\", "r" >>
    ELSE IF c = "\t" THEN << "\\", "t" >>
    ELSE IF is_control(c)
    THEN << "\\", "u", "0", "0", HexChars[(code(c) \div 16) + 1],
            HexChars[(code(c) % 16) + 1] >>
    ELSE << c >>

RECURSIVE escape_str(_)
escape_str(s) ==
    IF s = << >> THEN << >>
    ELSE escape_char(Head(s)) \o escape_str(Tail(s))

\* The JSON text of a string.
format_str(s) == << "\"" >> \o escape_str(s) \o << "\"" >>

\* The text of a finite f64 (zmij, as serde_json writes floats): with
\* kk the place of the decimal point in the digits, plain notation when
\* -5 < kk <= 16 and the notation with an exponent otherwise, in which
\* the exponent has its sign, e+16 as well as e-7.
format_f64(v) ==
    LET digits == v.s
        length == Len(digits)
        kk == length + v.n
        sign == IF v.b THEN << "-" >> ELSE << >>
    IN  sign \o
        (IF length = 0 THEN << "0", ".", "0" >>
         ELSE IF 0 <= v.n /\ kk <= 16
         THEN digits \o zeros(v.n) \o << ".", "0" >>
         ELSE IF 0 < kk /\ kk <= 16
         THEN SubSeq(digits, 1, kk) \o << "." >> \o SubSeq(digits, kk + 1, length)
         ELSE IF -5 < kk /\ kk <= 0
         THEN << "0", "." >> \o zeros(-kk) \o digits
         ELSE (IF length = 1 THEN digits
               ELSE << digits[1], "." >> \o SubSeq(digits, 2, length))
              \o (IF kk - 1 < 0 THEN << "e", "-" >> \o itoa(1 - kk)
                  ELSE << "e", "+" >> \o itoa(kk - 1)))

RECURSIVE to_string(_), format_elements(_), format_members(_, _)
\* serde_json::to_string(&v): the JSON text of a value, with no blanks.
to_string(v) ==
    IF v.t = "null" THEN NULL_TEXT
    ELSE IF v.t = "bool" THEN (IF v.b THEN TRUE_TEXT ELSE FALSE_TEXT)
    ELSE IF v.t = "num" THEN itoa_signed(v.n)
    ELSE IF v.t = "big" THEN (IF v.b THEN << "-" >> ELSE << >>) \o v.s
    ELSE IF v.t = "float" THEN format_f64(v)
    ELSE IF v.t = "str" THEN format_str(v.s)
    ELSE IF v.t = "arr" THEN << "[" >> \o format_elements(v.a) \o << "]" >>
    ELSE << "{" >> \o format_members(v.k, v.a) \o << "}" >>

\* The elements of an array, with commas between.
format_elements(elements) ==
    IF elements = << >> THEN << >>
    ELSE to_string(Head(elements))
         \o (IF Len(elements) = 1 THEN << >>
             ELSE << "," >> \o format_elements(Tail(elements)))

\* The members of an object, with commas between.
format_members(keys, values) ==
    IF keys = << >> THEN << >>
    ELSE format_str(Head(keys)) \o << ":" >> \o to_string(Head(values))
         \o (IF Len(keys) = 1 THEN << >>
             ELSE << "," >> \o format_members(Tail(keys), Tail(values)))

\* serde_json::to_string(&o) of an Option: None is written as null and
\* Some(v) as v itself, with no wrapper.
to_string_option(o) == IF o.some THEN to_string(o.v) ELSE NULL_TEXT

\* A step of the parser: ok, the value read, and the index of the next
\* unread character.
Parsed(v, next) == [ok |-> TRUE, v |-> v, next |-> next]
ParseFail == [ok |-> FALSE, v |-> JNull, next |-> 0]

Whitespace == {" ", "\n", "\t", "\r"}

RECURSIVE skip_ws(_, _)
\* The index of the first character at or after i that is not whitespace.
skip_ws(s, i) ==
    IF i <= Len(s) /\ s[i] \in Whitespace THEN skip_ws(s, i + 1) ELSE i

\* Whether the text from i on starts with the identifier.
starts_with(s, i, ident) ==
    /\ i + Len(ident) - 1 <= Len(s)
    /\ SubSeq(s, i, i + Len(ident) - 1) = ident

\* The value of a hexadecimal digit, in either case; -1 for anything else.
hex_value_by(order, c) ==
    IF between(order, "0", c, "9") THEN distance(order, "0", c)
    ELSE IF between(order, "a", c, "f") THEN distance(order, "a", c) + 10
    ELSE IF between(order, "A", c, "F") THEN distance(order, "A", c) + 10
    ELSE 0 - 1
hex_value(c) == hex_value_by(CodeOf, c)

\* The number the four hexadecimal digits from s[i] on write; -1 when they
\* are not four hexadecimal digits.
decode_hex_escape(s, i) ==
    LET h == [j \in 0..3 |-> IF i + j <= Len(s) THEN hex_value(s[i + j])
                             ELSE 0 - 1]
    IN  IF \E j \in 0..3 : h[j] < 0 THEN 0 - 1
        ELSE ((h[0] * 16 + h[1]) * 16 + h[2]) * 16 + h[3]

\* The values of the bytes of a code point in UTF-8.
utf8_codes(cp) ==
    IF cp < 128 THEN << cp >>
    ELSE IF cp < 2048 THEN << 192 + (cp \div 64), 128 + (cp % 64) >>
    ELSE IF cp < 65536
    THEN << 224 + (cp \div 4096), 128 + ((cp \div 64) % 64), 128 + (cp % 64) >>
    ELSE << 240 + (cp \div 262144), 128 + ((cp \div 4096) % 64),
            128 + ((cp \div 64) % 64), 128 + (cp % 64) >>

\* char::encode_utf8: the bytes of a code point.
encode_utf8(cp) ==
    LET codes == utf8_codes(cp)
    IN  [i \in 1..Len(codes) |-> Bytes[codes[i] + 1]]

RECURSIVE parse_str(_, _, _), parse_unicode_escape(_, _, _, _, _)
\* The rest of a string after its opening quote; i is the next character.
\* An escape is one of \" \\ \/ \b \f \n \r \t and \u with four hexadecimal
\* digits.  A control character that is not escaped is refused.
parse_str(s, i, acc) ==
    IF i > Len(s) THEN ParseFail
    ELSE IF s[i] = "\"" THEN Parsed(JStr(acc), i + 1)
    ELSE IF s[i] = "\\" THEN
        IF i + 1 > Len(s) THEN ParseFail
        ELSE IF s[i + 1] \in {"\"", "\\", "/"}
             THEN parse_str(s, i + 2, Append(acc, s[i + 1]))
        ELSE IF s[i + 1] = "b" THEN parse_str(s, i + 2, Append(acc, "x08"))
        ELSE IF s[i + 1] = "f" THEN parse_str(s, i + 2, Append(acc, "\f"))
        ELSE IF s[i + 1] = "n" THEN parse_str(s, i + 2, Append(acc, "\n"))
        ELSE IF s[i + 1] = "r" THEN parse_str(s, i + 2, Append(acc, "\r"))
        ELSE IF s[i + 1] = "t" THEN parse_str(s, i + 2, Append(acc, "\t"))
        ELSE IF s[i + 1] = "u"
             THEN parse_unicode_escape(s, i, acc, decode_hex_escape(s, i + 2),
                                       decode_hex_escape(s, i + 8))
        ELSE ParseFail
    ELSE IF is_control(s[i]) THEN ParseFail
    ELSE parse_str(s, i + 1, Append(acc, s[i]))

\* The \u escape at s[i], where n1 is the number its digits write and n2
\* the number that the digits of a \u escape right after it would write:
\* the escape of a leading surrogate, U+D800 .. U+DBFF, needs the escape
\* of a trailing surrogate, U+DC00 .. U+DFFF, after it, and a trailing
\* surrogate alone is refused.
parse_unicode_escape(s, i, acc, n1, n2) ==
    IF n1 < 0 THEN ParseFail
    ELSE IF n1 >= 56320 /\ n1 <= 57343 THEN ParseFail
    ELSE IF n1 >= 55296 /\ n1 <= 56319 THEN
        IF /\ i + 7 <= Len(s)
           /\ s[i + 6] = "\\"
           /\ s[i + 7] = "u"
           /\ n2 >= 56320
           /\ n2 <= 57343
        THEN parse_str(s, i + 12,
                 acc \o encode_utf8(65536 + (n1 - 55296) * 1024 + (n2 - 56320)))
        ELSE ParseFail
    ELSE parse_str(s, i + 6, acc \o encode_utf8(n1))

RECURSIVE digits_end(_, _)
\* The index of the first character at or after i that is not a digit.
digits_end(s, i) ==
    IF i <= Len(s) /\ is_digit(s[i]) THEN digits_end(s, i + 1) ELSE i

\* i32::MAX, the greatest exponent parse_exponent keeps.
I32_MAX == 2147483647
I32_MAX_DIGITS == << "2", "1", "4", "7", "4", "8", "3", "6", "4", "7" >>

\* overflow!(a * 10 + b, c): whether a * 10 + b is greater than c.
overflow(a, b, c) == a >= c \div 10 /\ (a > c \div 10 \/ b > c % 10)

RECURSIVE digits_value(_)
\* The i32 the digits write, as the loop of parse_exponent adds them up;
\* it is i32::MAX at most, and the callers ask for no number above it.
digits_value(d) ==
    IF d = << >> THEN 0
    ELSE LET h == digits_value(SubSeq(d, 1, Len(d) - 1))
         IN  IF overflow(h, digit_value(d[Len(d)]), I32_MAX) THEN I32_MAX
             ELSE h * 10 + digit_value(d[Len(d)])

\* The digits d from the first that is not a zero on.
strip_leading_zeros(d) ==
    SubSeq(d, 1 + Cardinality({i \in 1..Len(d) :
                                  \A j \in 1..i : d[j] = "0"}), Len(d))

\* Whether a comes before b in the order of the table, a shorter text
\* before the longer ones it starts.
seq_lt(order, a, b) ==
    \/ Len(a) < Len(b) /\ SubSeq(b, 1, Len(a)) = a
    \/ \E i \in 1..Len(a) :
          /\ i <= Len(b)
          /\ SubSeq(a, 1, i - 1) = SubSeq(b, 1, i - 1)
          /\ order[a[i]] < order[b[i]]

\* Whether a comes before b, byte by byte.
bytes_lt(a, b) == seq_lt(CodeOf, a, b)

\* Whether the integer of digits a is at most the integer of digits b;
\* neither starts with a zero.
digits_le(a, b) ==
    \/ Len(a) < Len(b)
    \/ Len(a) = Len(b) /\ (a = b \/ bytes_lt(a, b))

U64_MAX_DIGITS ==
    << "1", "8", "4", "4", "6", "7", "4", "4", "0", "7",
       "3", "7", "0", "9", "5", "5", "1", "6", "1", "5" >>
I64_MIN_DIGITS ==
    << "9", "2", "2", "3", "3", "7", "2", "0", "3", "6",
       "8", "5", "4", "7", "7", "5", "8", "0", "8" >>

(***************************************************************************)
(* The arithmetic of an f64.  A natural number of any size is the sequence *)
(* of its digits in base 10000, the least first and the last not zero;     *)
(* zero is the empty sequence.  The operations on these are exact, and an  *)
(* operation on f64s is the exact one followed by the rounding to the      *)
(* nearest f64, ties to the even one, as IEEE 754 defines it.              *)
(***************************************************************************)
\* The first of two indices that is not 0.
first_found(upper, lower) == IF upper # 0 THEN upper ELSE lower

RECURSIVE bn_top(_, _, _)
\* The index of the last digit of a[lo .. hi] that is not zero, or 0.
bn_top(a, lo, hi) ==
    IF lo > hi THEN 0
    ELSE IF a[hi] # 0 THEN hi
    ELSE IF lo = hi THEN 0
    ELSE first_found(bn_top(a, (lo + hi) \div 2 + 1, hi),
                     bn_top(a, lo, (lo + hi) \div 2))

bn_trim(a) == SubSeq(a, 1, bn_top(a, 1, Len(a)))

\* The number the decimal digits d write.
bn_from_digits(d) ==
    bn_trim([i \in 1..((Len(d) + 3) \div 4) |->
        LET p == Len(d) - 4 * (i - 1)
        IN  digit_value(d[p])
            + (IF p > 1 THEN 10 * digit_value(d[p - 1]) ELSE 0)
            + (IF p > 2 THEN 100 * digit_value(d[p - 2]) ELSE 0)
            + (IF p > 3 THEN 1000 * digit_value(d[p - 3]) ELSE 0)])

\* The number of decimal digits of a.
bn_digits(a) ==
    IF a = << >> THEN 0
    ELSE 4 * (Len(a) - 1)
         + (IF a[Len(a)] < 10 THEN 1 ELSE IF a[Len(a)] < 100 THEN 2
            ELSE IF a[Len(a)] < 1000 THEN 3 ELSE 4)


RECURSIVE lin_range(_, _, _, _, _, _, _)
\* The digits lo to hi of a * k + b * j, with the carry into them, and the
\* carry out of them: the lower half first, then the upper half with the
\* carry of the lower.
lin_range(a, k, b, j, lo, hi, carry) ==
    IF lo > hi THEN [s |-> << >>, c |-> carry]
    ELSE IF lo = hi
    THEN LET t == (IF lo <= Len(a) THEN a[lo] * k ELSE 0)
                  + (IF lo <= Len(b) THEN b[lo] * j ELSE 0) + carry
         IN  [s |-> << t % 10000 >>, c |-> t \div 10000]
    ELSE LET lower == lin_range(a, k, b, j, lo, (lo + hi) \div 2, carry)
             upper == lin_range(a, k, b, j, (lo + hi) \div 2 + 1, hi, lower.c)
         IN  [s |-> lower.s \o upper.s, c |-> upper.c]

\* The number of all the digits r with its carry.
lin_value(r) == bn_trim(IF r.c = 0 THEN r.s ELSE Append(r.s, r.c))

\* The sign of the number r: a carry below zero is a borrow.
lin_sign(r) ==
    IF r.c < 0 THEN 0 - 1
    ELSE IF r.c = 0 /\ (\A i \in 1..Len(r.s) : r.s[i] = 0) THEN 0
    ELSE 1

\* a * k + b * j, which is not negative; k and j are at most 10000.
bn_lin(a, k, b, j) ==
    lin_value(lin_range(a, k, b, j, 1,
                        IF Len(a) > Len(b) THEN Len(a) ELSE Len(b), 0))

\* The sign of a * k + b * j: -1, 0 or 1.
bn_sign(a, k, b, j) ==
    lin_sign(lin_range(a, k, b, j, 1,
                       IF Len(a) > Len(b) THEN Len(a) ELSE Len(b), 0))

RECURSIVE bn_mul_pow(_, _, _)
\* a * base^k for the base 2, 5 or 10, by factors below 10000.
bn_mul_pow(a, base, k) ==
    IF k <= 0 \/ a = << >> THEN a
    ELSE IF k <= (IF base = 2 THEN 13 ELSE 4)
    THEN bn_lin(a, base ^ k, << >>, 0)
    ELSE bn_mul_pow(bn_mul_pow(a, base, k \div 2), base, k - k \div 2)

RECURSIVE mul_range(_, _, _, _)
\* a times the digits lo to hi of b.
mul_range(a, b, lo, hi) ==
    IF lo > hi THEN << >>
    ELSE IF lo = hi THEN bn_lin(a, b[lo], << >>, 0)
    ELSE bn_lin(mul_range(a, b, lo, (lo + hi) \div 2), 1,
                [i \in 1..((lo + hi) \div 2 + 1 - lo) |-> 0]
                    \o mul_range(a, b, (lo + hi) \div 2 + 1, hi), 1)

\* a * b.
bn_mul(a, b) == mul_range(a, b, 1, Len(b))

\* An f64 that is not NaN, without its sign: m * 2^e with m below 2^53,
\* and at least 2^52 unless e is the least exponent; or infinity.
F64_MANTISSA_DIGITS == 53
F64_MIN_EXP == 0 - 1021
F64_MAX_EXP == 1024
F64_MAX_10_EXP == 308
F64_ROUND_TRIP_DIGITS == 17
F64_ZERO == [m |-> << >>, e |-> 0, inf |-> FALSE]
F64_INFINITY == [m |-> << >>, e |-> 0, inf |-> TRUE]

\* The f64 of m * 2^t: a mantissa that the rounding carried to 2^53 is
\* 2^52 at the next exponent, and an exponent above the greatest is
\* infinity.  half is 2^52.
f64_carried(m, t, half, carried) ==
    IF (IF carried THEN t + 1 ELSE t) > F64_MAX_EXP - F64_MANTISSA_DIGITS
    THEN F64_INFINITY
    ELSE [m |-> IF carried THEN half ELSE m,
          e |-> IF carried THEN t + 1 ELSE t, inf |-> FALSE]

\* The f64 of the rounded mantissa m at the exponent t.
f64_normal(m, t, half) ==
    IF m = << >> THEN F64_ZERO
    ELSE f64_carried(m, t, half, bn_sign(m, 1, half, 0 - 2) = 0)

\* Whether q and a rest that compares as c to a half round up: to the
\* nearest, a tie to the even one.
round_up(q, c) == c > 0 \/ (c = 0 /\ q # << >> /\ q[1] % 2 = 1)

\* The f64 of (st.q + st.r / 2d) * 2^t.
f64_rounded(st, d, t) ==
    f64_normal(bn_lin(st.q, 1, << 1 >>,
                      IF round_up(st.q, bn_sign(st.r, 1, d, 0 - 1))
                      THEN 1 ELSE 0),
               t, bn_mul_pow(<< 1 >>, 2, F64_MANTISSA_DIGITS - 1))

\* One more bit of the quotient: 1 when the rest holds d.
divide_step(st, d, bit) ==
    [q |-> bn_lin(st.q, 2, << 1 >>, bit),
     r |-> bn_lin(st.r, 2, d, 0 - 2 * bit),
     bits |-> st.bits + 1]

RECURSIVE divide_bits(_, _, _)
\* The division by d carried on to count bits of the quotient: st.q is
\* the quotient of st.bits bits and st.r the rest, which is below 2d.
divide_bits(st, d, count) ==
    IF st.bits >= count THEN st
    ELSE IF st.bits + 1 = count
    THEN divide_step(st, d, IF bn_sign(st.r, 1, d, 0 - 1) >= 0 THEN 1 ELSE 0)
    ELSE divide_bits(divide_bits(st, d, (st.bits + count) \div 2), d, count)

\* The exponent of the last bit of an f64 whose first bit has exponent x.
ulp_exponent(x) ==
    IF x - (F64_MANTISSA_DIGITS - 1) < F64_MIN_EXP - F64_MANTISSA_DIGITS
    THEN F64_MIN_EXP - F64_MANTISSA_DIGITS
    ELSE x - (F64_MANTISSA_DIGITS - 1)

\* The f64 nearest to n / d * 2^x, n / d at least 1 and below 2, its last
\* bit at exponent t.
round_at(n, d, x, t) ==
    IF x - t + 1 < 0 THEN F64_ZERO
    ELSE f64_rounded(divide_bits([q |-> << >>, r |-> n, bits |-> 0], d,
                               x - t + 1), d, t)

RECURSIVE normalise(_, _, _, _)
\* The f64 nearest to n / d * 2^(s + e), n / d below 1: n is doubled until
\* n / d is at least 1.
normalise(n, d, s, e) ==
    IF bn_sign(n, 1, d, 0 - 1) < 0
    THEN normalise(bn_lin(n, 2, << >>, 0), d, s - 1, e)
    ELSE round_at(n, d, s + e, ulp_exponent(s + e))

\* scaled is n * 2^-s when s is negative and d * 2^s otherwise.
round_scaled(n, d, e, s, scaled) ==
    normalise(IF s < 0 THEN scaled ELSE n, IF s < 0 THEN d ELSE scaled, s, e)

\* The f64 nearest to n / d * 2^e, n / d below 2^s.
round_from(n, d, e, s) ==
    round_scaled(n, d, e, s,
                 bn_mul_pow(IF s < 0 THEN n ELSE d, 2,
                            IF s < 0 THEN 0 - s ELSE s))

\* The f64 nearest to n / d * 2^e, ties to the even one; d is not zero.
round_f64(n, d, e) ==
    IF n = << >> THEN F64_ZERO
    ELSE round_from(n, d, e,
             ((bn_digits(n) - bn_digits(d) + 1) * 3322) \div 1000 + 2)

\* significand as f64, of a u64.
u64_as_f64(significand) == round_f64(bn_from_digits(significand), << 1 >>, 0)

\* The entry n of the table POW10, the f64 1e<n>, n from 0 to 308.
POW10(n) == round_f64(bn_mul_pow(<< 1 >>, 5, n), << 1 >>, n)

\* f * pow or f / pow.
f64_mul_or_div(f, pow, mul) ==
    round_f64(IF mul THEN bn_mul(f.m, pow.m) ELSE f.m,
              IF mul THEN << 1 >> ELSE pow.m,
              IF mul THEN f.e + pow.e ELSE f.e - pow.e)

\* Whether an interval whose end compares as c to a power of ten reaches
\* it: the end is in the interval when the mantissa is even.
reaches(c, even) == IF even THEN c >= 0 ELSE c > 0

\* The digit after d, rest left of it: the last digit is d or d + 1, the
\* one in the interval, and the nearer one when both are, c comparing the
\* rest to a half and a tie going to the even digit.
generate_end(st, d, rest, mm, low, high, c) ==
    [r |-> rest, mm |-> mm,
     digits |-> Append(st.digits,
                    DigitChars[IF high /\ (~low \/ c > 0
                                            \/ (c = 0 /\ d % 2 = 1))
                               THEN d + 2 ELSE d + 1]),
     done |-> low \/ high]

\* Whether the rest after the digit d is inside the interval, from below
\* (at most mm is left) and from above (wide * mm reaches the next digit).
generate_rest(st, s, wide, even, d, rest, mm) ==
    generate_end(st, d, rest, mm,
                 reaches(bn_sign(mm, 1, rest, 0 - 1), even),
                 reaches(bn_sign(bn_lin(rest, 1, mm, wide), 1, s, 0 - 1),
                         even),
                 bn_sign(rest, 2, s, 0 - 1))

\* The digit d of 10 * st.r / s and the rest of it.
generate_digit(st, s, wide, even, d) ==
    generate_rest(st, s, wide, even, d,
                  bn_lin(st.r, 10, s, 0 - d), bn_lin(st.mm, 10, << >>, 0))

RECURSIVE generate(_, _, _, _, _)
\* At most n more digits of the shortest decimal in the rounding interval
\* of st.r / s, which reaches st.mm / s below and wide times that above:
\* the digits stop where what is left is inside the interval.
generate(st, s, wide, even, n) ==
    IF st.done \/ n <= 0 THEN st
    ELSE IF n = 1
    THEN generate_digit(st, s, wide, even,
             Cardinality({x \in 1..9 : bn_sign(s, x, st.r, 0 - 10) <= 0}))
    ELSE generate(generate(st, s, wide, even, n \div 2), s, wide, even,
                  n - n \div 2)

RECURSIVE fixup(_, _, _, _, _, _)
\* The digits and the exponent k of the shortest decimal 0.d1d2.. * 10^k:
\* k is the least with 10^k beyond the interval, and (r + wide * mm) / s is
\* below 1.
fixup(r, s, mm, wide, even, k) ==
    IF reaches(bn_sign(bn_lin(r, 1, mm, wide), 10, s, 0 - 1), even)
    THEN [digits |-> generate([r |-> r, mm |-> mm, digits |-> << >>,
                               done |-> FALSE],
                              s, wide, even, F64_ROUND_TRIP_DIGITS).digits,
          k |-> k]
    ELSE fixup(bn_lin(r, 10, << >>, 0), s, bn_lin(mm, 10, << >>, 0),
               wide, even, k - 1)

\* r / s and mm / s divided by 10^k, a k that is not too small.
shortest_scaled(r, s, mm, wide, even, k) ==
    fixup(bn_mul_pow(r, 10, 0 - k), bn_mul_pow(s, 10, k),
          bn_mul_pow(mm, 10, 0 - k), wide, even, k)

\* 10^k is above the interval when k is one more than the digits of its
\* upper end over those of s.
shortest_from(r, s, mm, wide, even) ==
    shortest_scaled(r, s, mm, wide, even,
        bn_digits(bn_lin(r, 1, mm, wide)) - bn_digits(s) + 1)

\* f is r / s and half the distance to the f64 below it is mm / s.
shortest_wide(f, wide) ==
    shortest_from(bn_mul_pow(bn_lin(f.m, 2 * wide, << >>, 0), 2, f.e),
                  bn_mul_pow(<< 2 * wide >>, 2, 0 - f.e),
                  bn_mul_pow(<< 1 >>, 2, f.e),
                  wide, f.m[1] % 2 = 0)

\* The shortest decimal that reads back as f, which is finite and not
\* zero, and of these the nearest to f: the rounding interval of f reaches
\* half the way to the next f64 above and below, and above a power of two
\* twice as far as below.
shortest_decimal(f) ==
    shortest_wide(f,
        IF /\ f.e > F64_MIN_EXP - F64_MANTISSA_DIGITS
           /\ f.m = bn_mul_pow(<< 1 >>, 2, F64_MANTISSA_DIGITS - 1)
        THEN 2 ELSE 1)

\* The f64 with the digits d.digits, the point before them, times 10^d.k.
f64_digits(neg, d) == JFloat(neg, d.digits, d.k - Len(d.digits))

\* The value of a finite f64 with its sign.
f64_value(neg, f) ==
    IF f.m = << >> THEN JFloat(neg, << >>, 0)
    ELSE f64_digits(neg, shortest_decimal(f))

\* An f64 that is infinite is a number out of range.
f64_result(neg, f, next) ==
    IF f.inf THEN ParseFail ELSE Parsed(f64_value(neg, f), next)

RECURSIVE f64_scale(_, _)
\* What f64_from_parts makes of f and the exponent when scaled is f times
\* or by the power of ten of the table nearest to the exponent: that, when
\* the table has the exponent; below the table f is divided by 1e308 and
\* the rest of the exponent is applied, unless f is zero; and above it a
\* number that is not zero is out of range.
scale_next(f, exponent, scaled) ==
    IF exponent <= F64_MAX_10_EXP /\ exponent >= 0 - F64_MAX_10_EXP
    THEN scaled
    ELSE IF f.m = << >> THEN f
    ELSE IF exponent >= 0 THEN F64_INFINITY
    ELSE f64_scale(scaled, exponent + F64_MAX_10_EXP)

\* f * 10^exponent as f64_from_parts computes it.
f64_scale(f, exponent) ==
    scale_next(f, exponent,
        f64_mul_or_div(f,
            POW10(IF exponent > F64_MAX_10_EXP \/ exponent < 0 - F64_MAX_10_EXP
                  THEN F64_MAX_10_EXP
                  ELSE IF exponent >= 0 THEN exponent ELSE 0 - exponent),
            exponent >= 0))

\* The digits d up to the last that is not a zero.
strip_trailing_zeros(d) ==
    SubSeq(d, 1, Len(d) - Cardinality({i \in 1..Len(d) :
                                          \A j \in i..Len(d) : d[j] = "0"}))

\* A decimal that needs no arithmetic: d1, the digits of the significand
\* from the first that is not zero, are at most f64::DIGITS, and the power
\* of ten is one an f64 holds exactly.  The f64 of the significand and
\* POW10[|exponent|] are then the numbers themselves, their product or
\* quotient is rounded once, and the shortest decimal that reads back as
\* the result is the decimal written; zero is zero at any exponent.
F64_DIGITS == 15
F64_EXACT_POW10 == 22
is_exact_decimal(d1, exponent) ==
    \/ d1 = << >>
    \/ /\ Len(d1) <= F64_DIGITS
       /\ exponent <= F64_EXACT_POW10
       /\ exponent >= 0 - F64_EXACT_POW10

exact_decimal(neg, d1, d2, exponent) ==
    IF d2 = << >> THEN JFloat(neg, << >>, 0)
    ELSE JFloat(neg, d2, exponent + (Len(d1) - Len(d2)))

\* The f64 of significand * 10^exponent, the significand a u64: a number
\* too large for an f64 is refused.
f64_from_parts(neg, significand, exponent, next) ==
    IF is_exact_decimal(strip_leading_zeros(significand), exponent)
    THEN Parsed(exact_decimal(neg, strip_leading_zeros(significand),
                    strip_trailing_zeros(strip_leading_zeros(significand)),
                    exponent), next)
    ELSE f64_result(neg, f64_scale(u64_as_f64(significand), exponent), next)

\* A number with no fraction and no exponent that fits a u64: a u64 when
\* it is not negative, an i64 when it is negative and fits, and the f64
\* -(significand as f64) otherwise, which is the f64 of the significand at
\* the exponent 0; -0 is the f64 -0.0.
integer_from_parts(neg, digits, next) ==
    IF neg /\ (digits = << "0" >> \/ ~digits_le(digits, I64_MIN_DIGITS))
    THEN f64_from_parts(neg, digits, 0, next)
    ELSE IF Len(digits) <= 9
    THEN Parsed(JNum(IF neg THEN 0 - digits_value(digits)
                     ELSE digits_value(digits)), next)
    ELSE Parsed(JBig(neg, digits), next)

\* How many of the digits of more the significand takes: those before the
\* digit that would overflow a u64.
accumulate(significand, more) ==
    Cardinality({n \in 1..Len(more) :
        digits_le(strip_leading_zeros(significand \o SubSeq(more, 1, n)),
                  U64_MAX_DIGITS)})

\* i32::saturating_add and i32::saturating_sub, of an i32 and an i32 that
\* is not negative.
saturating_add(a, b) ==
    IF a > 0 /\ b > I32_MAX - a THEN I32_MAX ELSE a + b
saturating_sub(a, b) ==
    IF a < 0 /\ b - 1 > a + I32_MAX THEN (0 - I32_MAX) - 1 ELSE a - b

\* An exponent that overflows an i32, at digits that end before next:
\* a number that is not zero is out of range at a positive exponent, and
\* otherwise the number is zero.
parse_exponent_overflow(neg, zero_significand, positive_exp, next) ==
    IF ~zero_significand /\ positive_exp THEN ParseFail
    ELSE Parsed(JFloat(neg, << >>, 0), next)

\* The digits s[e1 .. p3 - 1] of an exponent, at least one: the exponent
\* is added to starting_exp, or taken from it, and the number is the
\* significand at the exponent that gives.
parse_exponent_digits(s, neg, significand, starting_exp, positive_exp, e1, p3) ==
    IF p3 = e1 THEN ParseFail
    ELSE IF ~digits_le(strip_leading_zeros(SubSeq(s, e1, p3 - 1)),
                       I32_MAX_DIGITS)
    THEN parse_exponent_overflow(neg,
             strip_leading_zeros(significand) = << >>, positive_exp, p3)
    ELSE f64_from_parts(neg, significand,
             IF positive_exp
             THEN saturating_add(starting_exp,
                                 digits_value(SubSeq(s, e1, p3 - 1)))
             ELSE saturating_sub(starting_exp,
                                 digits_value(SubSeq(s, e1, p3 - 1))),
             p3)

\* An exponent at s[p], which is e or E: an optional sign and digits.
parse_exponent(s, neg, significand, starting_exp, p) ==
    LET has_sign == p + 1 <= Len(s) /\ s[p + 1] \in {"+", "-"}
        e1 == IF has_sign THEN p + 2 ELSE p + 1
    IN  parse_exponent_digits(s, neg, significand, starting_exp,
                              ~(has_sign /\ s[p + 1] = "-"),
                              e1, digits_end(s, e1))

\* What follows the digits of a number, at s[p]: an exponent or nothing.
parse_exponent_or_end(s, neg, significand, exponent, p) ==
    IF p <= Len(s) /\ s[p] \in {"e", "E"}
    THEN parse_exponent(s, neg, significand, exponent, p)
    ELSE f64_from_parts(neg, significand, exponent, p)

\* The digits s[p1 + 1 .. p2 - 1] after the significand, a fraction when
\* s[p1] is the point and none when p2 is p1: the significand takes the
\* first n of them and the digits after these are ignored, and an exponent
\* may follow.
parse_decimal(s, neg, significand, exponent, p1, p2, n) ==
    parse_exponent_or_end(s, neg, significand \o SubSeq(s, p1 + 1, p1 + n),
                          exponent - n, p2)

\* A number that is an f64, for its fraction, its exponent or its integer
\* part s[j .. p1 - 1] that overflows a u64 (parse_long_integer), of which
\* the significand took the first n digits; p2 is the end of the digits.
parse_float(s, neg, j, n, p1, p2) ==
    parse_decimal(s, neg, SubSeq(s, j, j + n - 1), p1 - j - n, p1, p2,
        accumulate(SubSeq(s, j, j + n - 1), SubSeq(s, p1 + 1, p2 - 1)))

\* What follows the integer part s[j .. p1 - 1], of which the significand
\* took the first n digits: a fraction of at least one digit, an exponent
\* or nothing.
parse_number_tail(s, neg, j, p1, n) ==
    IF p1 <= Len(s) /\ s[p1] = "." /\ digits_end(s, p1 + 1) = p1 + 1
    THEN ParseFail
    ELSE IF \/ n < p1 - j
            \/ (p1 <= Len(s) /\ s[p1] \in {".", "e", "E"})
    THEN parse_float(s, neg, j, n, p1,
                     IF p1 <= Len(s) /\ s[p1] = "."
                     THEN digits_end(s, p1 + 1) ELSE p1)
    ELSE integer_from_parts(neg, SubSeq(s, j, p1 - 1), p1)

\* The integer part at s[j], after the sign: 0 alone, or digits that start
\* with no zero.
parse_integer(s, neg, j) ==
    IF j > Len(s) THEN ParseFail
    ELSE IF ~is_digit(s[j]) THEN ParseFail
    ELSE IF s[j] = "0" /\ j + 1 <= Len(s) /\ is_digit(s[j + 1]) THEN ParseFail
    ELSE parse_number_tail(s, neg, j, digits_end(s, j),
             accumulate(<< >>, SubSeq(s, j, digits_end(s, j) - 1)))

\* A number starting at s[i], which is a minus sign or a digit.
parse_number(s, i) ==
    parse_integer(s, s[i] = "-", IF s[i] = "-" THEN i + 1 ELSE i)

\* Map::insert: the keys stay in byte order, and a key that is there
\* already gets the new value.
map_insert_sorted(keys, values, key, value) ==
    IF \E p \in 1..Len(keys) : keys[p] = key
    THEN [k |-> keys,
          a |-> [p \in 1..Len(keys) |->
                    IF keys[p] = key THEN value ELSE values[p]]]
    ELSE LET n == Cardinality({p \in 1..Len(keys) : bytes_lt(keys[p], key)})
         IN  [k |-> SubSeq(keys, 1, n) \o << key >>
                        \o SubSeq(keys, n + 1, Len(keys)),
              a |-> SubSeq(values, 1, n) \o << value >>
                        \o SubSeq(values, n + 1, Len(values))]

\* Arrays and objects may be nested this deep and no deeper.
RECURSION_LIMIT == 128

RECURSIVE parse_value(_, _, _), parse_elements(_, _, _, _)
RECURSIVE parse_members(_, _, _, _, _), parse_member_value(_, _, _, _, _)
\* A serde_json::Value at the non-blank character s[i], with depth arrays
\* and objects open around it.
parse_value(s, i, depth) ==
    IF s[i] = "n" THEN
        IF starts_with(s, i, NULL_TEXT)
        THEN Parsed(JNull, i + Len(NULL_TEXT)) ELSE ParseFail
    ELSE IF s[i] = "t" THEN
        IF starts_with(s, i, TRUE_TEXT)
        THEN Parsed(JBool(TRUE), i + Len(TRUE_TEXT)) ELSE ParseFail
    ELSE IF s[i] = "f" THEN
        IF starts_with(s, i, FALSE_TEXT)
        THEN Parsed(JBool(FALSE), i + Len(FALSE_TEXT)) ELSE ParseFail
    ELSE IF s[i] = "-" \/ is_digit(s[i]) THEN parse_number(s, i)
    ELSE IF s[i] = "\"" THEN parse_str(s, i + 1, << >>)
    ELSE IF s[i] \in {"[", "{"} THEN
        LET j == skip_ws(s, i + 1)
        IN  IF depth + 1 >= RECURSION_LIMIT THEN ParseFail
            ELSE IF j > Len(s) THEN ParseFail
            ELSE IF s[i] = "[" THEN
                IF s[j] = "]" THEN Parsed(JArr(<< >>), j + 1)
                ELSE parse_elements(s, j, depth + 1, << >>)
            ELSE
                IF s[j] = "}" THEN Parsed(JObj(<< >>, << >>), j + 1)
                ELSE parse_members(s, j, depth + 1, << >>, << >>)
    ELSE ParseFail

\* The elements of an array from the non-blank character s[i] on, which
\* starts an element; acc is the elements read so far.
parse_elements(s, i, depth, acc) ==
    LET r == parse_value(s, i, depth)
        j == skip_ws(s, r.next)
        m == skip_ws(s, j + 1)
    IN  IF ~r.ok THEN ParseFail
        ELSE IF j > Len(s) THEN ParseFail
        ELSE IF s[j] = "]" THEN Parsed(JArr(Append(acc, r.v)), j + 1)
        ELSE IF s[j] = "," THEN
            IF m > Len(s) THEN ParseFail
            ELSE parse_elements(s, m, depth, Append(acc, r.v))
        ELSE ParseFail

\* The members of an object from the non-blank character s[i] on, which
\* starts a member: a string, a colon and a value.
parse_members(s, i, depth, keys, values) ==
    IF s[i] # "\"" THEN ParseFail
    ELSE parse_member_value(s, depth, keys, values, parse_str(s, i + 1, << >>))

\* The rest of a member after its key.
parse_member_value(s, depth, keys, values, key) ==
    LET colon == skip_ws(s, key.next)
        start == skip_ws(s, colon + 1)
        r == parse_value(s, start, depth)
        j == skip_ws(s, r.next)
        m == skip_ws(s, j + 1)
        map == map_insert_sorted(keys, values, key.v.s, r.v)
    IN  IF ~key.ok THEN ParseFail
        ELSE IF colon > Len(s) THEN ParseFail
        ELSE IF s[colon] # ":" THEN ParseFail
        ELSE IF start > Len(s) THEN ParseFail
        ELSE IF ~r.ok THEN ParseFail
        ELSE IF j > Len(s) THEN ParseFail
        ELSE IF s[j] = "}" THEN Parsed(JObj(map.k, map.a), j + 1)
        ELSE IF s[j] = "," THEN
            IF m > Len(s) THEN ParseFail
            ELSE parse_members(s, m, depth, map.k, map.a)
        ELSE ParseFail

U8_MAX == 255

\* A u8 of a number read: the number is an integer from 0 to U8_MAX.
u8_from(r) ==
    IF r.ok /\ r.v.t = "num" /\ r.v.n >= 0 /\ r.v.n <= U8_MAX
    THEN r
    ELSE ParseFail

\* Deserialize for the element type ty, at the non-blank character s[i].
\* A u8 is a number that is an integer from 0 to U8_MAX, a String is a
\* string, and a serde_json::Value is any value.
deserialize(ty, s, i) ==
    IF ty = "u8" THEN
        IF s[i] = "-" \/ is_digit(s[i])
        THEN u8_from(parse_number(s, i))
        ELSE ParseFail
    ELSE IF ty = "String" THEN
        IF s[i] = "\"" THEN parse_str(s, i + 1, << >>) ELSE ParseFail
    ELSE parse_value(s, i, 0)

\* An Option<T> at text[i], the first character that is not blank: a text
\* that starts with n must be null, any other text is read as a T.
deserialize_option(ty, text, i) ==
    IF i > Len(text) THEN ParseFail
    ELSE IF text[i] = "n" THEN
        IF starts_with(text, i, NULL_TEXT)
        THEN Parsed(JNull, i + Len(NULL_TEXT)) ELSE ParseFail
    ELSE deserialize(ty, text, i)

\* Deserializer::end after an Option<T> was read from text[i] on: only
\* blanks may follow.
end_option(text, i, r) ==
    IF ~r.ok THEN read_err("serde_json")
    ELSE IF skip_ws(text, r.next) <= Len(text) THEN read_err("serde_json")
    ELSE IF text[i] = "n" THEN OkOpt(None)
    ELSE OkOpt(Some(r.v))

\* serde_json::from_str::<Option<T>>(text): blanks are skipped, a text that
\* starts with n must be null and is None whatever T is, any other text is
\* read as a T, and only blanks may follow.
from_str_option(ty, text) ==
    end_option(text, skip_ws(text, 1),
               deserialize_option(ty, text, skip_ws(text, 1)))

\* Deserializer::end after a value was read: only blanks may follow.
end_value(text, r) ==
    IF ~r.ok THEN write_err("serde_json")
    ELSE IF skip_ws(text, r.next) <= Len(text) THEN write_err("serde_json")
    ELSE OkValue(r.v)

\* serde_json::from_str::<serde_json::Value>(text), as the command line
\* program reads its value argument.
from_str_value(text) ==
    end_value(text, IF skip_ws(text, 1) > Len(text) THEN ParseFail
                    ELSE deserialize("Value", text, skip_ws(text, 1)))

(***************************************************************************)
(* The file.  Its content is its bytes in order; cursor is the offset of   *)
(* the one file description every clone of the handle shares.              *)
(***************************************************************************)
RECURSIVE lines(_)
\* BufRead::lines: the text is cut after every newline; the newline is
\* dropped, and a carriage return before it too; text after the last
\* newline is a last line.
lines(s) ==
    IF s = << >> THEN << >>
    ELSE LET hits == {i \in 1..Len(s) : s[i] = NEWLINE}
         IN  IF hits = {} THEN << s >>
             ELSE LET first == CHOOSE i \in hits : \A j \in hits : i <= j
                      raw == SubSeq(s, 1, first - 1)
                      line == IF raw # << >> /\ raw[Len(raw)] = "\r"
                              THEN SubSeq(raw, 1, Len(raw) - 1)
                              ELSE raw
                  IN  << line >> \o lines(SubSeq(s, first + 1, Len(s)))

\* A scan that does not rewind: the offset stays where it is.
rewind_missing(cur) == cur

\* File::rewind: the new offset.
rewind(cur) == 0

\* A record with no newline after it.
record_line_no_newline(key, value) == key \o << COMMA >> \o value

\* The text writeln!(file, "{key},{value}") formats.
record_line(key, value) == key \o << COMMA >> \o value \o << NEWLINE >>

\* A write to a file opened without append(true): the bytes go where the
\* cursor is, over what is there.
write_at_cursor(content, cur, bytes) ==
    SubSeq(content, 1, cur) \o bytes
        \o SubSeq(content, cur + Len(bytes) + 1, Len(content))

\* A write to a file opened with append(true): the bytes go to the end of
\* the file, wherever the cursor is.
append_write(content, cur, bytes) == content \o bytes

\* FxHashMap::insert and FxHashMap::remove
map_insert(m, k, v) ==
    [x \in (DOMAIN m) \cup {k} |-> IF x = k THEN v ELSE m[x]]
\* A load_map that keeps the entry of a tombstoned key.
map_remove_missing(m, k) == m
map_remove(m, k) == [x \in (DOMAIN m) \ {k} |-> m[x]]

(***************************************************************************)
(* scan and its three reducers.  A closure is the record of its function   *)
(* and of the key it captures.                                             *)
(***************************************************************************)
get_closure(key) == [fn |-> "get", key |-> key]
contains_closure(key) == [fn |-> "contains", key |-> key]
load_map_closure == [fn |-> "load_map", key |-> << >>]

\* Output::default()
default_output(f) ==
    IF f.fn = "get" THEN OkOpt(None)
    ELSE IF f.fn = "contains" THEN OkBool(FALSE)
    ELSE OkMap(<< >>)

\* A get that decodes the value of every record, whatever its key.
get_reducer_decodes_all(ty, key, k, v, out) ==
    LET d == from_str_option(ty, v)
    IN  IF is_err(d) THEN d
        ELSE IF k = key THEN OkOpt(d.opt)
        ELSE out

\* *output = serde_json::from_str(v).map_err(read_err)?
assign_output(d) == IF is_err(d) THEN d ELSE OkOpt(d.opt)

\* The closure of get: the output after the call, or the error.
get_reducer(ty, key, k, v, out) ==
    IF k = key THEN assign_output(from_str_option(ty, v)) ELSE out

\* The closure of contains.
contains_reducer(key, k, v, out) ==
    IF k = key THEN OkBool(v # NULL_TEXT) ELSE out

\* The match of load_map on the value decoded, d: Some(v) is inserted,
\* None removes the key.
load_map_match(k, d, out) ==
    IF is_err(d) THEN d
    ELSE IF d.opt.some THEN OkMap(map_insert(out.map, k, d.opt.v))
    ELSE OkMap(map_remove(out.map, k))

\* The closure of load_map.
load_map_reducer(ty, k, v, out) ==
    load_map_match(k, from_str_option(ty, v), out)

\* f(k, v, &mut output): the output after the call, or the error.
reduce(ty, f, k, v, out) ==
    IF f.fn = "get" THEN get_reducer(ty, f.key, k, v, out)
    ELSE IF f.fn = "contains" THEN contains_reducer(f.key, k, v, out)
    ELSE load_map_reducer(ty, k, v, out)

\* How the loop of scan ended: what scan returns, how many lines the loop
\* took from the reader, and whether the reader came to the end of the
\* file (the loop asked for a line and there was none).
Stopped(res, taken, eof) == [res |-> res, taken |-> taken, eof |-> eof]

\* Whether the byte of value n is the second, third or fourth byte of a
\* character: 0x80 .. 0xBF.
is_continuation(n) == n >= 128 /\ n <= 191

\* How many bytes the character has that the byte of value n starts: 0
\* when no character starts with the byte.  One byte up to 0x7F, two from
\* 0xC2 to 0xDF, three from 0xE0 to 0xEF, four from 0xF0 to 0xF4.
utf8_char_width(n) ==
    IF n < 128 THEN 1
    ELSE IF n >= 194 /\ n <= 223 THEN 2
    ELSE IF n >= 224 /\ n <= 239 THEN 3
    ELSE IF n >= 240 /\ n <= 244 THEN 4
    ELSE 0

\* Whether n may follow the first byte of a character as its second byte:
\* no character is written longer than it needs to be (0xE0, 0xF0), none
\* is a surrogate (0xED) and none is past U+10FFFF (0xF4).
is_second_byte(first, n) ==
    IF first = 224 THEN n >= 160 /\ n <= 191
    ELSE IF first = 237 THEN n >= 128 /\ n <= 159
    ELSE IF first = 240 THEN n >= 144 /\ n <= 191
    ELSE IF first = 244 THEN n >= 128 /\ n <= 143
    ELSE is_continuation(n)

\* Whether the bytes of values cs are UTF-8: the first byte is no
\* continuation, and every byte that is no continuation starts a
\* character that has all its bytes, with no continuation after them.
is_utf8_codes(cs) ==
    /\ cs # << >> => ~is_continuation(cs[1])
    /\ \A i \in 1..Len(cs) :
          LET w == utf8_char_width(cs[i])
          IN  is_continuation(cs[i])
              \/ /\ w >= 1
                 /\ i + w - 1 <= Len(cs)
                 /\ w >= 2 => is_second_byte(cs[i], cs[i + 1])
                 /\ \A j \in 2..(w - 1) : is_continuation(cs[i + j])
                 /\ i + w <= Len(cs) => ~is_continuation(cs[i + w])

\* str::from_utf8(bytes).is_ok()
is_utf8(bytes) == is_utf8_codes([i \in 1..Len(bytes) |-> code(bytes[i])])

RECURSIVE scan_lines(_, _, _, _, _), scan_pair(_, _, _, _, _, _)
RECURSIVE scan_reduced(_, _, _, _, _)
\* The loop of scan over the lines read, from line_number on.  A line
\* that is not UTF-8 is an error of the reader.
scan_lines(ty, f, ls, line_number, out) ==
    IF line_number >= Len(ls) THEN Stopped(out, Len(ls), TRUE)
    ELSE IF ~is_utf8(ls[line_number + 1])
    THEN Stopped(read_err("io"), line_number + 1, FALSE)
    ELSE scan_pair(ty, f, ls, line_number, out,
                   split_key_value(ls[line_number + 1], line_number))

\* let (key, value) = split_key_value(&line, line_number)?; f(...)?
scan_pair(ty, f, ls, line_number, out, kv) ==
    IF is_err(kv) THEN Stopped(kv, line_number + 1, FALSE)
    ELSE scan_reduced(ty, f, ls, line_number,
                      reduce(ty, f, kv.key, kv.value, out))

\* The loop after f was called on a line, r its output or its error.
scan_reduced(ty, f, ls, line_number, r) ==
    IF is_err(r) THEN Stopped(r, line_number + 1, FALSE)
    ELSE scan_lines(ty, f, ls, line_number + 1, r)

\* What the reader of scan reads: the file from the cursor on.
read_to_end(content, cur) == SubSeq(content, cur + 1, Len(content))

\* The capacity of the buffer of io::BufReader::new.
DEFAULT_BUF_SIZE == 8192

\* How many bytes of the text the first taken lines are, newlines included.
bytes_of_lines(text, taken) ==
    LET hits == {i \in 1..Len(text) : text[i] = NEWLINE}
    IN  IF taken = 0 THEN 0
        ELSE IF Cardinality(hits) < taken THEN Len(text)
        ELSE CHOOSE i \in hits :
                 Cardinality({j \in hits : j <= i}) = taken

\* The offset of the file after a scan that started at offset start.  The
\* reader fetches the file a buffer at a time, each time its buffer is
\* used up: the offset is at the end of the file when the reader came to
\* it, and else at the end of the buffer that holds the last line taken.
cursor_after_scan(content, start, stopped) ==
    LET text == read_to_end(content, start)
        used == bytes_of_lines(text, stopped.taken)
        fetched == ((used + DEFAULT_BUF_SIZE - 1) \div DEFAULT_BUF_SIZE)
                       * DEFAULT_BUF_SIZE
    IN  IF stopped.eof \/ fetched >= Len(text) THEN Len(content)
        ELSE start + fetched

\* What scan returns and the offset it leaves, when its loop stopped as
\* given on a file read from start.
scan_outcome(content, start, stopped) ==
    [res |-> stopped.res,
     cursor |-> cursor_after_scan(content, start, stopped)]

\* Store::scan on a file nobody else writes meanwhile: what it returns,
\* and the offset it leaves.
scan_run(ty, f, content, cur) ==
    scan_outcome(content, rewind(cur),
                 scan_lines(ty, f, lines(read_to_end(content, rewind(cur))),
                            0, default_output(f)))

\* What Store::scan returns.
scan(ty, f, content, cur) == scan_run(ty, f, content, cur).res

(***************************************************************************)
(* Inputs of the model.                                                    *)
(***************************************************************************)
\* How many set/unset calls a run appends to a new file, and to a file
\* that had content when it was opened.
MaxOps == 3
MaxSeededOps == 1
\* The longest key and line the pure functions are called with, and the
\* largest line number.
MaxKeyLen == 2
MaxLineLen == 5
MaxLineNumber == 1

SeqsUpTo(S, n) == UNION {[1..m -> S] : m \in 0..n}

\* The element types the repository instantiates the store with.
ElemTypes == {"u8", "String", "Value"}

\* The values a run sets, by element type; the first String ends with
\* the two bytes of U+00E9.
ValuesOf(ty) ==
    IF ty = "u8" THEN {JNum(7), JNum(255)}
    ELSE IF ty = "String"
         THEN {JStr(<< ",", "\"", "\n", "xC3", "xA9" >>), JStr(NULL_TEXT)}
    ELSE {JNull, JNum(7)}

\* The keys a run calls the store with: valid ones, the empty key among
\* them, and invalid ones.
ValidKeys == {<< "k" >>, << >>}
InvalidKeys == {<< "b", ",", "k" >>}
Keys == ValidKeys \cup InvalidKeys

\* The keys and lines validate_key and split_key_value are called with.
ProbeChars ==
    {"0", "9", "A", "Z", "a", "z", " ", ":", "/", ".",
     ",", "\n", "\t", "\r", "-", "_", ";", "@", "[", "GRAVE", "{"}
ProbeKeys == SeqsUpTo(ProbeChars, MaxKeyLen)
ProbeLines == SeqsUpTo({"a", "b", "c", ","}, MaxLineLen)
Probes ==
    [text : ProbeKeys \cup ProbeLines, line_number : 0..MaxLineNumber]
NoProbe == [text |-> << >>, line_number |-> 0]

\* What a file may hold when it is opened: records written by a store, and
\* content no store wrote, lines that are not UTF-8 among it.
Seeds ==
    { << "g", "a", "r", "b", "a", "g", "e", "\n" >>,
      << "k", ",", "7", "\n", "g", "a", "r", "b", "a", "g", "e", "\n" >>,
      << "g", "a", "r", "b", "a", "g", "e", "\n", "k", ",", "7", "\n" >>,
      << "k", ",", "x", "\n", "g", "a", "r", "b", "a", "g", "e", "\n" >>,
      << ",", "x", "\n", "k", ",", "7", "\n", "b", "a", "d", "\n" >>,
      << "k", ",", "7", "\n", "\n", ",", "7", "\n" >>,
      << "k", ",", "7", "\r", "\n", ",", "n", "u", "l", "l", "\r", "\n" >>,
      << "k", ",", " ", "n", "u", "l", "l", "\n" >>,
      << "k", ",", "7", "\n", ",", "\"", "a", "\"" >>,
      << "xFF", "\n" >>,
      << "k", ",", "xFF", "\n" >>,
      << "xFF", ",", "1", "\n", "g", "a", "r", "b", "a", "g", "e", "\n" >>,
      << "g", "a", "r", "b", "a", "g", "e", "\n", "k", ",", "xFF", "\n" >> }

(***************************************************************************)
(* State.                                                                  *)
(*   elem    the element type T of the store                               *)
(*   file    the bytes of the log file                                     *)
(*   cursor  the offset of the open file                                   *)
(*   last    the last call and what it returned                            *)
(*   hist    the set/unset calls that returned Ok, in order                *)
(*   budget  how many set/unset calls the run may still make               *)
(*   probe   the text and line number the pure functions are called with   *)
(*   pc      where each thread is in its call                              *)
(*   lock    the thread that holds the mutex of the store, or NoThread     *)
(*   req     the call of each thread: its arguments, what it has read,     *)
(*           what it returned                                              *)
(*   done    the set/unset calls of the threads that returned Ok, in the   *)
(*           order they returned, each with the offsets of its bytes and   *)
(*           with how many calls had returned when it was made             *)
(*   lock2   the thread that holds the mutex of a second store, opened on  *)
(*           the same path by its own call of Store::open                  *)
(*   cursor2 the offset of the open file of the second store               *)
(*   torn    the part of a record that an interrupted append wrote         *)
(***************************************************************************)
VARIABLES elem, file, cursor, last, hist, budget, probe, pc, lock, req, done,
          lock2, cursor2, torn

vars == << elem, file, cursor, last, hist, budget, probe, pc, lock, req, done,
           lock2, cursor2, torn >>
threadVars == << pc, lock, req, done >>
\* The mutex and the offset of a second store opened on the same path, and
\* the append that was interrupted.
otherVars == << lock2, cursor2, torn >>

Call(op, key, arg, line_number, res) ==
    [op |-> op, key |-> key, arg |-> arg, line_number |-> line_number,
     res |-> res]

Write(op, key, arg) == [op |-> op, key |-> key, arg |-> arg]

\* The threads that use clones of the store, and no thread.
Threads == {"t1", "t2"}
NoThread == "none"

NoReq ==
    [op |-> "none", key |-> << >>, arg |-> None, text |-> << >>,
     begun |-> 0, from |-> 0, view_from |-> 0, view |-> << >>,
     res |-> OkUnit]

\* No append was interrupted: torn holds the offset and the bytes of the
\* part of a record that an interrupted append wrote.
NoTorn == [from |-> 0, bytes |-> << >>]

\* No thread has called the store; no second store, no interrupted append.
ThreadsIdle ==
    /\ pc = [t \in Threads |-> "idle"]
    /\ lock = NoThread
    /\ req = [t \in Threads |-> NoReq]
    /\ done = << >>
    /\ lock2 = NoThread
    /\ cursor2 = 0
    /\ torn = NoTorn

\* File::options().read(true).write(true).create(true).append(true).open:
\* the content after the call, given what the path held (nothing when the
\* file is created).
open(existing) == existing

\* Store::open on a path that holds nothing.
Init ==
    /\ elem \in ElemTypes
    /\ file = open(<< >>)
    /\ cursor = 0
    /\ last = Call("open", << >>, None, 0, OkUnit)
    /\ hist = << >>
    /\ budget = MaxOps
    /\ probe = NoProbe
    /\ ThreadsIdle

\* Store::open on a file that has content.
InitSeeded ==
    /\ elem \in ElemTypes
    /\ \E seed \in Seeds : file = open(seed)
    /\ cursor = 0
    /\ last = Call("open", << >>, None, 0, OkUnit)
    /\ hist = << >>
    /\ budget = MaxSeededOps
    /\ probe = NoProbe
    /\ ThreadsIdle

\* Store::open on a path that holds nothing, for the shorter runs.
InitFew ==
    /\ elem \in ElemTypes
    /\ file = open(<< >>)
    /\ cursor = 0
    /\ last = Call("open", << >>, None, 0, OkUnit)
    /\ hist = << >>
    /\ budget = MaxSeededOps
    /\ probe = NoProbe
    /\ ThreadsIdle

\* Store::set
Set(key, value) ==
    LET vk == validate_key(key)
        text == to_string_option(Some(value))
    IN  IF is_err(vk)
        THEN /\ last' = Call("set", key, Some(value), 0, vk)
             /\ UNCHANGED << elem, file, cursor, hist, budget, probe, otherVars,
                          pc, lock, req, done >>
        ELSE /\ budget > 0
             /\ file' = append_write(file, cursor, record_line(vk.key, text))
             /\ cursor' = Len(file')
             /\ last' = Call("set", key, Some(value), 0, OkUnit)
             /\ hist' = Append(hist, Write("set", key, Some(value)))
             /\ budget' = budget - 1
             /\ UNCHANGED << elem, probe, otherVars, pc, lock, req, done >>

\* Store::unset
Unset(key) ==
    LET vk == validate_key(key)
        text == to_string_option(None)
    IN  IF is_err(vk)
        THEN /\ last' = Call("unset", key, None, 0, vk)
             /\ UNCHANGED << elem, file, cursor, hist, budget, probe, otherVars,
                          pc, lock, req, done >>
        ELSE /\ budget > 0
             /\ file' = append_write(file, cursor, record_line(vk.key, text))
             /\ cursor' = Len(file')
             /\ last' = Call("unset", key, None, 0, OkUnit)
             /\ hist' = Append(hist, Write("unset", key, None))
             /\ budget' = budget - 1
             /\ UNCHANGED << elem, probe, otherVars, pc, lock, req, done >>

\* Store::get
Get(key) ==
    LET vk == validate_key(key)
    IN  IF is_err(vk)
        THEN /\ last' = Call("get", key, None, 0, vk)
             /\ UNCHANGED << elem, file, cursor, hist, budget, probe, otherVars,
                          pc, lock, req, done >>
        ELSE LET r == scan_run(elem, get_closure(vk.key), file, cursor)
             IN  /\ last' = Call("get", key, None, 0, r.res)
                 /\ cursor' = r.cursor
             /\ UNCHANGED << elem, file, hist, budget, probe, otherVars,
                          pc, lock, req, done >>

\* Store::contains
Contains(key) ==
    LET vk == validate_key(key)
    IN  IF is_err(vk)
        THEN /\ last' = Call("contains", key, None, 0, vk)
             /\ UNCHANGED << elem, file, cursor, hist, budget, probe, otherVars,
                          pc, lock, req, done >>
        ELSE LET r == scan_run(elem, contains_closure(vk.key), file, cursor)
             IN  /\ last' = Call("contains", key, None, 0, r.res)
                 /\ cursor' = r.cursor
             /\ UNCHANGED << elem, file, hist, budget, probe, otherVars,
                          pc, lock, req, done >>

\* Store::load_map
LoadMap ==
    /\ LET r == scan_run(elem, load_map_closure, file, cursor)
       IN  /\ last' = Call("load_map", << >>, None, 0, r.res)
           /\ cursor' = r.cursor
    /\ UNCHANGED << elem, file, hist, budget, probe, otherVars,
                          pc, lock, req, done >>

Next ==
    \/ \E key \in Keys : \E value \in ValuesOf(elem) : Set(key, value)
    \/ \E key \in Keys : Unset(key)
    \/ \E key \in Keys : Get(key)
    \/ \E key \in Keys : Contains(key)
    \/ LoadMap

\* A store on a new file, used by one thread.
Spec == Init /\ [][Next]_vars

\* A store on a file that had content when it was opened.
SpecSeeded == InitSeeded /\ [][Next]_vars

\* The pure functions are called on an input chosen at the start.
InitPure ==
    /\ elem \in ElemTypes
    /\ file = open(<< >>)
    /\ cursor = 0
    /\ last = Call("open", << >>, None, 0, OkUnit)
    /\ hist = << >>
    /\ budget = 0
    /\ probe \in Probes
    /\ ThreadsIdle

\* validate_key called on its own, as tests::validate_key_test does.
ValidateKeyCall ==
    /\ last' = Call("validate_key", probe.text, None, 0,
                    validate_key(probe.text))
    /\ UNCHANGED << elem, file, cursor, hist, budget, probe, otherVars,
                          pc, lock, req, done >>

\* split_key_value called on its own, as tests::separator_test does.
SplitKeyValueCall ==
    /\ last' = Call("split_key_value", probe.text, None, probe.line_number,
                    split_key_value(probe.text, probe.line_number))
    /\ UNCHANGED << elem, file, cursor, hist, budget, probe, otherVars,
                          pc, lock, req, done >>

NextPure ==
    \/ ValidateKeyCall
    \/ SplitKeyValueCall

\* The pure functions of the library, called on every input of the bounds.
SpecPure == InitPure /\ [][NextPure]_vars

(***************************************************************************)
(* Threads on clones of one store.  Clone for Store copies the Arc, so     *)
(* every clone denotes the one mutex and the one open file: the threads    *)
(* share lock, file and cursor.  A call is the steps its thread takes:     *)
(* the key check and the encoding, the lock, the accesses to the file      *)
(* under the lock, and the return, which drops the guard.  writeln! on a   *)
(* File formats through Write::write_fmt, which writes the key, the        *)
(* comma, the value and the newline with one write each.                   *)
(***************************************************************************)
\* How many set/unset calls the threads make in a run.
MaxThreadOps == 2

ThreadKeys == {<< "k" >>, << "b", ",", "k" >>}

InitClones ==
    /\ elem \in ElemTypes
    /\ file = open(<< >>)
    /\ cursor = 0
    /\ last = Call("open", << >>, None, 0, OkUnit)
    /\ hist = << >>
    /\ budget = MaxThreadOps
    /\ probe = NoProbe
    /\ ThreadsIdle

\* The closure a read passes to scan.
closure_of(op, key) ==
    IF op = "get" THEN get_closure(key)
    ELSE IF op = "contains" THEN contains_closure(key)
    ELSE load_map_closure

\* A thread calls set or unset (arg is Some(value) or None): validate_key
\* and serde_json::to_string, before the lock is asked for.  A call with
\* an invalid key returns at once, and leaves its error in req[t].res.
CallWrite(t, op, key, arg) ==
    LET vk == validate_key(key)
    IN  /\ pc[t] = "idle"
        /\ IF is_err(vk)
           THEN /\ req' = [req EXCEPT ![t] = [NoReq EXCEPT !.res = vk]]
                /\ UNCHANGED << pc, budget >>
           ELSE /\ budget > 0
                /\ budget' = budget - 1
                /\ req' = [req EXCEPT ![t] =
                              [NoReq EXCEPT !.op = op, !.key = vk.key,
                                            !.arg = arg,
                                            !.text = to_string_option(arg),
                                            !.begun = Len(done)]]
                /\ pc' = [pc EXCEPT ![t] = "lock"]
        /\ UNCHANGED << elem, file, cursor, last, hist, probe, otherVars, lock, done >>

\* A thread calls get or contains: validate_key, then scan.
CallRead(t, op, key) ==
    LET vk == validate_key(key)
    IN  /\ pc[t] = "idle"
        /\ IF is_err(vk)
           THEN /\ req' = [req EXCEPT ![t] = [NoReq EXCEPT !.res = vk]]
                /\ UNCHANGED pc
           ELSE /\ req' = [req EXCEPT ![t] =
                              [NoReq EXCEPT !.op = op, !.key = vk.key,
                                            !.begun = Len(done)]]
                /\ pc' = [pc EXCEPT ![t] = "lock"]
        /\ UNCHANGED << elem, file, cursor, last, hist, budget, probe, otherVars, lock,
                        done >>

\* A thread calls load_map.
CallLoadMap(t) ==
    /\ pc[t] = "idle"
    /\ req' = [req EXCEPT ![t] =
                  [NoReq EXCEPT !.op = "load_map", !.begun = Len(done)]]
    /\ pc' = [pc EXCEPT ![t] = "lock"]
    /\ UNCHANGED << elem, file, cursor, last, hist, budget, probe, otherVars, lock, done >>

\* A lock that does not wait: the thread goes on whoever holds the mutex.
Lock_no_wait(t) ==
    /\ pc[t] = "lock"
    /\ lock' = t
    /\ pc' = [pc EXCEPT ![t] =
                 IF req[t].op \in {"set", "unset"} THEN "write_key"
                 ELSE "rewind"]
    /\ UNCHANGED << elem, file, cursor, last, hist, budget, probe, otherVars, req, done >>

\* self.0.lock(): the thread waits until the mutex is free and takes it.
Lock(t) ==
    /\ pc[t] = "lock"
    /\ lock = NoThread
    /\ lock' = t
    /\ pc' = [pc EXCEPT ![t] =
                 IF req[t].op \in {"set", "unset"} THEN "write_key"
                 ELSE "rewind"]
    /\ UNCHANGED << elem, file, cursor, last, hist, budget, probe, otherVars, req, done >>

\* One write of writeln!: the bytes, and the step that follows.  write_all
\* of no bytes (an empty key) makes no call to the file: the file and its
\* offset stay as they are.  req[t].from is the offset of the first byte of
\* the record.
WriteStep(t, at, bytes, then) ==
    /\ pc[t] = at
    /\ file' = IF bytes = << >> THEN file
               ELSE append_write(file, cursor, bytes)
    /\ cursor' = IF bytes = << >> THEN cursor ELSE Len(file')
    /\ pc' = [pc EXCEPT ![t] = then]
    /\ req' = [req EXCEPT ![t].from =
                  IF at = "write_key" \/ (at = "write_comma" /\ req[t].key = << >>)
                  THEN Len(file) ELSE @]
    /\ UNCHANGED << elem, last, hist, budget, probe, otherVars, lock, done >>

WriteKey(t) == WriteStep(t, "write_key", req[t].key, "write_comma")
WriteComma(t) == WriteStep(t, "write_comma", << COMMA >>, "write_value")
WriteValue(t) == WriteStep(t, "write_value", req[t].text, "write_newline")
WriteNewline(t) == WriteStep(t, "write_newline", << NEWLINE >>, "written")

\* set and unset return Ok: the guard is dropped.  The call is over, and
\* what remains of it is its record in done.
ReturnWrite(t) ==
    /\ pc[t] = "written"
    /\ lock' = NoThread
    /\ pc' = [pc EXCEPT ![t] = "idle"]
    /\ req' = [req EXCEPT ![t] = NoReq]
    /\ done' = Append(done, [key |-> req[t].key, text |-> req[t].text,
                             from |-> req[t].from, to |-> Len(file),
                             after |-> req[t].begun])
    /\ UNCHANGED << elem, file, cursor, last, hist, budget, probe, otherVars >>

\* A scan that drops the guard once it has rewound the file.
Rewind_drops_guard(t) ==
    /\ pc[t] = "rewind"
    /\ cursor' = rewind(cursor)
    /\ lock' = NoThread
    /\ pc' = [pc EXCEPT ![t] = "read"]
    /\ UNCHANGED << elem, file, last, hist, budget, probe, otherVars, req,
                    done >>

\* inner.file.rewind()
Rewind(t) ==
    /\ pc[t] = "rewind"
    /\ cursor' = rewind(cursor)
    /\ pc' = [pc EXCEPT ![t] = "read"]
    /\ UNCHANGED << elem, file, last, hist, budget, probe, otherVars, lock, req, done >>

\* The loop of scan: the reader reads from the cursor to the end of the
\* file, and the lines it read are reduced.
Read(t) ==
    LET text == read_to_end(file, cursor)
        f == closure_of(req[t].op, req[t].key)
        stopped == scan_lines(elem, f, lines(text), 0, default_output(f))
    IN  /\ pc[t] = "read"
        /\ cursor' = cursor_after_scan(file, cursor, stopped)
        /\ req' = [req EXCEPT ![t] =
                      [@ EXCEPT !.view_from = cursor, !.view = text,
                                !.res = stopped.res]]
        /\ pc' = [pc EXCEPT ![t] = "scanned"]
        /\ UNCHANGED << elem, file, last, hist, budget, probe, otherVars, lock, done >>

\* scan returns req[t].res: the guard is dropped, and the call is over.
ReturnRead(t) ==
    /\ pc[t] = "scanned"
    /\ lock' = NoThread
    /\ pc' = [pc EXCEPT ![t] = "idle"]
    /\ req' = [req EXCEPT ![t] = NoReq]
    /\ UNCHANGED << elem, file, cursor, last, hist, budget, probe, otherVars, done >>

NextClones ==
    \E t \in Threads :
        \/ \E key \in ThreadKeys : \E value \in ValuesOf(elem) :
               CallWrite(t, "set", key, Some(value))
        \/ \E key \in ThreadKeys : CallWrite(t, "unset", key, None)
        \/ \E key \in ThreadKeys : CallRead(t, "get", key)
        \/ \E key \in ThreadKeys : CallRead(t, "contains", key)
        \/ CallLoadMap(t)
        \/ Lock(t)
        \/ WriteKey(t)
        \/ WriteComma(t)
        \/ WriteValue(t)
        \/ WriteNewline(t)
        \/ ReturnWrite(t)
        \/ Rewind(t)
        \/ Read(t)
        \/ ReturnRead(t)

\* Threads that use clones of one store on a new file.
SpecClones == InitClones /\ [][NextClones]_vars

(***************************************************************************)
(* Two stores opened on one path, each by its own call of Store::open.     *)
(* Each has its own Arc, so its own mutex and its own open file with its   *)
(* own offset; the bytes of the file are the one thing they share.  Both   *)
(* files are opened with append(true): each write goes to the end of the   *)
(* file as it is at that write.  Thread t1 calls the first store and       *)
(* thread t2 the second.                                                   *)
(***************************************************************************)
FirstStoreThread == "t1"
SecondStoreThread == "t2"

\* self.0.lock() on the second store: its mutex is not the first store's.
Lock2(t) ==
    /\ pc[t] = "lock"
    /\ lock2 = NoThread
    /\ lock2' = t
    /\ pc' = [pc EXCEPT ![t] = "write_key"]
    /\ UNCHANGED << elem, file, cursor, last, hist, budget, probe, lock, req,
                    done, cursor2, torn >>

\* One write of writeln! to the file of the second store.
WriteStep2(t, at, bytes, then) ==
    /\ pc[t] = at
    /\ file' = IF bytes = << >> THEN file
               ELSE append_write(file, cursor2, bytes)
    /\ cursor2' = IF bytes = << >> THEN cursor2 ELSE Len(file')
    /\ pc' = [pc EXCEPT ![t] = then]
    /\ req' = [req EXCEPT ![t].from =
                  IF at = "write_key" \/ (at = "write_comma" /\ req[t].key = << >>)
                  THEN Len(file) ELSE @]
    /\ UNCHANGED << elem, cursor, last, hist, budget, probe, lock, done,
                    lock2, torn >>

WriteKey2(t) == WriteStep2(t, "write_key", req[t].key, "write_comma")
WriteComma2(t) == WriteStep2(t, "write_comma", << COMMA >>, "write_value")
WriteValue2(t) == WriteStep2(t, "write_value", req[t].text, "write_newline")
WriteNewline2(t) == WriteStep2(t, "write_newline", << NEWLINE >>, "written")

\* set and unset of the second store return Ok: its guard is dropped.
ReturnWrite2(t) ==
    /\ pc[t] = "written"
    /\ lock2' = NoThread
    /\ pc' = [pc EXCEPT ![t] = "idle"]
    /\ req' = [req EXCEPT ![t] = NoReq]
    /\ done' = Append(done, [key |-> req[t].key, text |-> req[t].text,
                             from |-> req[t].from, to |-> Len(file),
                             after |-> req[t].begun])
    /\ UNCHANGED << elem, file, cursor, last, hist, budget, probe, lock,
                    cursor2, torn >>

NextHandles ==
    \/ \E t \in Threads :
           \/ \E key \in ThreadKeys : \E value \in ValuesOf(elem) :
                  CallWrite(t, "set", key, Some(value))
           \/ \E key \in ThreadKeys : CallWrite(t, "unset", key, None)
    \/ Lock(FirstStoreThread)
    \/ WriteKey(FirstStoreThread)
    \/ WriteComma(FirstStoreThread)
    \/ WriteValue(FirstStoreThread)
    \/ WriteNewline(FirstStoreThread)
    \/ ReturnWrite(FirstStoreThread)
    \/ Lock2(SecondStoreThread)
    \/ WriteKey2(SecondStoreThread)
    \/ WriteComma2(SecondStoreThread)
    \/ WriteValue2(SecondStoreThread)
    \/ WriteNewline2(SecondStoreThread)
    \/ ReturnWrite2(SecondStoreThread)

\* Two threads that append through two stores opened on one new file.
SpecHandles == InitClones /\ [][NextHandles]_vars

(***************************************************************************)
(* An append that is interrupted.  writeln! returns the error of the       *)
(* first write that fails, and set/unset return it as Error::Write; the    *)
(* bytes written before it stay in the file.  The writes are the key, the  *)
(* comma, the value text and the newline, and a write can itself stop      *)
(* part way, so what stays is any prefix of the record short of the whole: *)
(* nothing at all when the first write fails (no room, a medium that is    *)
(* read-only), in which case the file and its offset are as before.        *)
(***************************************************************************)
\* A run has at most one append that leaves a part of its record.
Interrupted(key, arg) ==
    LET vk == validate_key(key)
        line == record_line(vk.key, to_string_option(arg))
    IN  /\ is_ok(vk)
        /\ \E n \in 0..(Len(line) - 1) :
               IF n = 0
               THEN UNCHANGED << file, cursor, torn >>
               ELSE /\ torn = NoTorn
                    /\ file' = append_write(file, cursor, SubSeq(line, 1, n))
                    /\ cursor' = Len(file')
                    /\ torn' = [from |-> Len(file),
                                bytes |-> SubSeq(line, 1, n)]
        /\ last' = Call(IF arg.some THEN "set" ELSE "unset", key, arg, 0,
                        write_err("io"))
        /\ UNCHANGED << elem, hist, budget, probe, threadVars, lock2,
                        cursor2 >>

NextInterrupted ==
    \/ \E key \in ValidKeys : \E value \in ValuesOf(elem) : Set(key, value)
    \/ \E key \in ValidKeys : Unset(key)
    \/ \E key \in ValidKeys : Get(key)
    \/ \E key \in ValidKeys : Contains(key)
    \/ LoadMap
    \/ \E key \in ValidKeys : \E value \in ValuesOf(elem) :
           Interrupted(key, Some(value))
    \/ \E key \in ValidKeys : Interrupted(key, None)

\* A store on a new file, one of whose appends is interrupted.
SpecInterrupted == InitFew /\ [][NextInterrupted]_vars

(***************************************************************************)
(* The store of tests::unset: a Store<String> on a new file, and the       *)
(* value "hello".                                                          *)
(***************************************************************************)
HELLO == JStr(<< "h", "e", "l", "l", "o" >>)

InitUnsetTest ==
    /\ elem = "String"
    /\ file = open(<< >>)
    /\ cursor = 0
    /\ last = Call("open", << >>, None, 0, OkUnit)
    /\ hist = << >>
    /\ budget = MaxOps
    /\ probe = NoProbe
    /\ ThreadsIdle

NextUnsetTest ==
    \/ \E key \in Keys : Set(key, HELLO)
    \/ \E key \in Keys : Unset(key)
    \/ \E key \in Keys : Get(key)
    \/ \E key \in Keys : Contains(key)
    \/ LoadMap

SpecUnsetTest == InitUnsetTest /\ [][NextUnsetTest]_vars

(***************************************************************************)
(* The command line program.  Each run is a process of its own: it opens   *)
(* a Store<serde_json::Value> on the path, so with the offset at 0, does   *)
(* its one command and exits.  The log is what the runs share.             *)
(***************************************************************************)
\* How many set/unset commands are run.
MaxCliOps == 2

\* The value arguments of the set command: JSON texts, and one that is not.
CliTexts ==
    {<< "7" >>, NULL_TEXT, << "\"", "a", "\"" >>, << " ", "7" >>, << "x" >>,
     << "[", "1", "]" >>, << "1", ".", "5", "0" >>,
     << "1", "e", "1", "6" >>}

\* println!("{}", value): the text on the standard output.
Printed(text) ==
    [ResBase EXCEPT !.kind = "Printed", !.line = text \o << NEWLINE >>]

\* A default that is the empty string.
unwrap_or_empty(o) == IF o.some THEN o.v ELSE JStr(<< >>)

\* Option::unwrap_or_default: the default of serde_json::Value is Null.
unwrap_or_default(o) == IF o.some THEN o.v ELSE JNull

InitCli ==
    /\ elem = "Value"
    /\ file = open(<< >>)
    /\ cursor = 0
    /\ last = Call("open", << >>, None, 0, OkUnit)
    /\ hist = << >>
    /\ budget = MaxCliOps
    /\ probe = NoProbe
    /\ ThreadsIdle

\* kv <db-path> set <key> <value>
CliSet(key, text) ==
    LET value == from_str_value(text)
        vk == validate_key(key)
    IN  IF is_err(value)
        THEN /\ last' = Call("cli_set", key, None, 0, value)
             /\ cursor' = 0
             /\ UNCHANGED << elem, file, hist, budget, probe, threadVars,
                             otherVars >>
        ELSE IF is_err(vk)
        THEN /\ last' = Call("cli_set", key, value.opt, 0, vk)
             /\ cursor' = 0
             /\ UNCHANGED << elem, file, hist, budget, probe, threadVars,
                             otherVars >>
        ELSE /\ budget > 0
             /\ file' = append_write(file, 0,
                            record_line(vk.key, to_string_option(value.opt)))
             /\ cursor' = Len(file')
             /\ last' = Call("cli_set", key, value.opt, 0, OkUnit)
             /\ hist' = Append(hist, Write("set", key, value.opt))
             /\ budget' = budget - 1
             /\ UNCHANGED << elem, probe, threadVars, otherVars >>

\* kv <db-path> unset <key>
CliUnset(key) ==
    LET vk == validate_key(key)
    IN  IF is_err(vk)
        THEN /\ last' = Call("cli_unset", key, None, 0, vk)
             /\ cursor' = 0
             /\ UNCHANGED << elem, file, hist, budget, probe, threadVars,
                             otherVars >>
        ELSE /\ budget > 0
             /\ file' = append_write(file, 0,
                            record_line(vk.key, to_string_option(None)))
             /\ cursor' = Len(file')
             /\ last' = Call("cli_unset", key, None, 0, OkUnit)
             /\ hist' = Append(hist, Write("unset", key, None))
             /\ budget' = budget - 1
             /\ UNCHANGED << elem, probe, threadVars, otherVars >>

\* kv <db-path> get <key>
CliGet(key) ==
    LET vk == validate_key(key)
        r == scan_run(elem, get_closure(vk.key), file, 0)
        value == IF is_err(vk) THEN vk ELSE r.res
    IN  /\ last' = Call("cli_get", key, None, 0,
                        IF is_err(value) THEN value
                        ELSE Printed(to_string(unwrap_or_default(value.opt))))
        /\ cursor' = IF is_err(vk) THEN 0 ELSE r.cursor
        /\ UNCHANGED << elem, file, hist, budget, probe, threadVars,
                        otherVars >>

NextCli ==
    \/ \E key \in Keys : \E text \in CliTexts : CliSet(key, text)
    \/ \E key \in Keys : CliUnset(key)
    \/ \E key \in Keys : CliGet(key)

\* Runs of the command line program on a new file.
SpecCli == InitCli /\ [][NextCli]_vars

(***************************************************************************)
(* Vocabulary of the properties.                                           *)
(***************************************************************************)
\* The characters a key may be made of, one by one.
AllowedChars ==
    {"0", "1", "2", "3", "4", "5", "6", "7", "8", "9",
     "A", "B", "C", "D", "E", "F", "G", "H", "I", "J", "K", "L", "M",
     "N", "O", "P", "Q", "R", "S", "T", "U", "V", "W", "X", "Y", "Z",
     "a", "b", "c", "d", "e", "f", "g", "h", "i", "j", "k", "l", "m",
     "n", "o", "p", "q", "r", "s", "t", "u", "v", "w", "x", "y", "z",
     " ", ":", "/", "."}

HasBadChar(key) == \E i \in 1..Len(key) : key[i] \notin AllowedChars
HasComma(line) == \E i \in 1..Len(line) : line[i] = ","

\* The text of a line before and after its first comma.
FirstComma(line) ==
    CHOOSE i \in 1..Len(line) :
        line[i] = "," /\ \A j \in 1..(i - 1) : line[j] # ","
KeyOf(line) == SubSeq(line, 1, FirstComma(line) - 1)
ValueOf(line) == SubSeq(line, FirstComma(line) + 1, Len(line))

\* The index in hist of the last write to a key, 0 when there is none.
LastWriteTo(h, key) ==
    LET W == {i \in 1..Len(h) : h[i].key = key}
    IN  IF W = {} THEN 0 ELSE CHOOSE i \in W : \A j \in W : j <= i

KeysWritten(h) == {h[i].key : i \in 1..Len(h)}

\* The zero-based indexes of the lines of the log that have no comma.
NoCommaLines(content) ==
    {i \in 0..(Len(lines(content)) - 1) : ~HasComma(lines(content)[i + 1])}
FirstNoCommaLine(content) ==
    CHOOSE i \in NoCommaLines(content) :
        \A j \in NoCommaLines(content) : i <= j

ReadOps == {"get", "contains", "load_map"}
KeyOps == {"set", "unset", "get", "contains"}

\* The last call was a read of the store that passed the key check.
LastIsRead == last.op \in ReadOps /\ last.res.kind # "InvalidKey"

(***************************************************************************)
(* C1.  After a successful set(K, V), whatever set/unset calls on other    *)
(* keys follow, get(K) returns V, present and equal to V.                  *)
(***************************************************************************)
C1_SetThenGetReturnsValue ==
    LET i == LastWriteTo(hist, last.key)
    IN  (last.op = "get" /\ i # 0 /\ hist[i].op = "set")
            => /\ last.res.kind = "Opt"
               /\ last.res.opt.some
               /\ last.res.opt.v = hist[i].arg.v

(***************************************************************************)
(* C2.  Last write wins: from an empty log, get(K) returns the value of    *)
(* the last set(K, _) if no unset(K) came after it, and absent if the      *)
(* last write to K was an unset or K was never written.                    *)
(***************************************************************************)
C2_LastWriteWins ==
    LET i == LastWriteTo(hist, last.key)
    IN  (last.op = "get" /\ last.res.kind # "InvalidKey")
            => /\ last.res.kind = "Opt"
               /\ last.res.opt =
                      (IF i = 0 \/ hist[i].op = "unset" THEN None
                       ELSE Some(hist[i].arg.v))

(***************************************************************************)
(* C3.  contains(K) is true exactly when the log has a record of K and     *)
(* the last one is no tombstone; it is false when K has no record or was   *)
(* last written by unset(K), and true when K was last written by a set.    *)
(***************************************************************************)
LastRecordLive(content, key) ==
    LET ls == lines(content)
        R == {i \in 1..Len(ls) : HasComma(ls[i]) /\ KeyOf(ls[i]) = key}
    IN  /\ R # {}
        /\ ValueOf(ls[CHOOSE i \in R : \A j \in R : j <= i]) # NULL_TEXT

C3_ContainsIffLastRecordLive ==
    LET i == LastWriteTo(hist, last.key)
    IN  (last.op = "contains" /\ last.res.kind # "InvalidKey")
            => /\ last.res.kind = "Bool"
               /\ last.res.bool = LastRecordLive(file, last.key)
               /\ (i = 0 \/ hist[i].op = "unset") => ~last.res.bool
               /\ (i # 0 /\ hist[i].op = "set") => last.res.bool

(***************************************************************************)
(* C4.  load_map() returns the mapping whose keys are the keys ever        *)
(* written for which get is present, each mapped to what get returns;      *)
(* tombstoned keys are not in it.                                          *)
(***************************************************************************)
GetOf(key) == scan(elem, get_closure(key), file, cursor)

C4_LoadMapEqualsGets ==
    LET live == {key \in KeysWritten(hist) :
                     GetOf(key).kind = "Opt" /\ GetOf(key).opt.some}
    IN  last.op = "load_map"
            => /\ last.res.kind = "Map"
               /\ DOMAIN last.res.map = live
               /\ \A key \in live : last.res.map[key] = GetOf(key).opt.v

C4_Witness ==
    /\ last.op = "load_map"
    /\ last.res.kind = "Map"
    /\ DOMAIN last.res.map # {}
    /\ \E key \in KeysWritten(hist) :
           /\ key \notin DOMAIN last.res.map
           /\ hist[LastWriteTo(hist, key)].op = "unset"

(***************************************************************************)
(* C5.  A successful set never appends a record whose value text is the    *)
(* tombstone literal null, so get never sees the set as a deletion.        *)
(***************************************************************************)
C5_SetNeverWritesTombstone ==
    LET ls == lines(file)
    IN  (last.op = "set" /\ last.res.kind = "Unit")
            => /\ ValueOf(ls[Len(ls)]) # NULL_TEXT
               /\ GetOf(last.key).kind = "Opt"
               /\ GetOf(last.key).opt.some

(***************************************************************************)
(* C6.  set, unset, get and contains called with a key that has a          *)
(* character outside the allowed class return InvalidKey with that key,    *)
(* and leave the file as it was, also when the log is malformed.           *)
(***************************************************************************)
C6_InvalidKeyLeavesFile ==
    [][(last'.op \in KeyOps /\ HasBadChar(last'.key))
           => /\ last'.res.kind = "InvalidKey"
              /\ last'.res.key = last'.key
              /\ file' = file
              /\ cursor' = cursor]_vars

C6_Witness ==
    /\ last.op = "set"
    /\ last.res.kind = "InvalidKey"
    /\ last.res.key = << "b", ",", "k" >>
    /\ NoCommaLines(file) # {}

(***************************************************************************)
(* C7.  validate_key accepts a string, returning it unchanged, if and      *)
(* only if each of its characters is a digit, a letter, a space, a colon,  *)
(* a slash or a dot; the empty string is accepted.                         *)
(***************************************************************************)
C7_ValidateKeyExact ==
    last.op = "validate_key"
        => IF HasBadChar(last.key)
           THEN last.res.kind = "InvalidKey" /\ last.res.key = last.key
           ELSE last.res.kind = "Key" /\ last.res.key = last.key

C7_Witness ==
    /\ last.op = "validate_key"
    /\ last.key = << "z", "," >>
    /\ last.res.kind = "InvalidKey"

(***************************************************************************)
(* C8.  A line with a comma is split at its first comma only: the key is   *)
(* the text before it and the value all the text after it; a line with     *)
(* no comma is a read error.                                               *)
(***************************************************************************)
C8_SplitAtFirstComma ==
    last.op = "split_key_value"
        => IF HasComma(last.key)
           THEN /\ last.res.kind = "Pair"
                /\ ~HasComma(last.res.key)
                /\ last.res.key \o << "," >> \o last.res.value = last.key
           ELSE /\ last.res.kind = "Read"
                /\ last.res.line_number = last.line_number
                /\ last.res.line = last.key

C8_Witness ==
    /\ last.op = "split_key_value"
    /\ last.key = << "a", ",", "b", ",", "c" >>
    /\ last.res.kind = "Pair"
    /\ last.res.key = << "a" >>
    /\ last.res.value = << "b", ",", "c" >>

(***************************************************************************)
(* C9.  When the log has a line with no comma, every get with a valid      *)
(* key, every contains and every load_map returns a Read error.  As        *)
(* first stated, the error always names the zero-based index and the       *)
(* content of the first such line.                                         *)
(***************************************************************************)
C9_ErrorNamesFirstNoCommaLine ==
    (LastIsRead /\ NoCommaLines(file) # {})
        => /\ last.res.kind = "Read"
           /\ last.res.cause = "Invalid data as line"
           /\ last.res.line_number = FirstNoCommaLine(file)
           /\ last.res.line = lines(file)[FirstNoCommaLine(file) + 1]

\* Whether the read decodes the record of a line: get decodes the records
\* of its key, load_map every record and contains none.
Decodes(op, key, line) ==
    op = "load_map" \/ (op = "get" /\ KeyOf(line) = key)

\* The zero-based indexes of the lines of the log at which the read
\* fails: the lines that are not UTF-8, the lines with no comma, and the
\* records the read decodes whose value text is no value of the element
\* type.
FailingLines(content, op, key) ==
    LET ls == lines(content)
    IN  {i \in 0..(Len(ls) - 1) :
            \/ ~is_utf8(ls[i + 1])
            \/ ~HasComma(ls[i + 1])
            \/ /\ Decodes(op, key, ls[i + 1])
               /\ from_str_option(elem, ValueOf(ls[i + 1])).kind = "Read"}
FirstFailingLine(content, op, key) ==
    CHOOSE i \in FailingLines(content, op, key) :
        \A j \in FailingLines(content, op, key) : i <= j

(***************************************************************************)
(* C9, amended.  When the log has a line with no comma, every get with a   *)
(* valid key, every contains and every load_map returns a Read error, and  *)
(* the error is that of the first line at which the read fails.  It names  *)
(* the zero-based index and the content of the first line with no comma    *)
(* when that line is UTF-8 and the read fails at no line before it.  A     *)
(* line that is not UTF-8, at or before the first line with no comma,      *)
(* fails the read with the error of the reader, which names no line; a     *)
(* record before it that the read decodes and whose value text cannot be   *)
(* decoded fails it with the decoding error.                               *)
(***************************************************************************)
C9_ReadErrorOnNoCommaLine ==
    (LastIsRead /\ NoCommaLines(file) # {}) =>
        LET i == FirstFailingLine(file, last.op, last.key)
            line == lines(file)[i + 1]
        IN  IF ~is_utf8(line) THEN last.res = read_err("io")
            ELSE IF i = FirstNoCommaLine(file)
            THEN /\ last.res.kind = "Read"
                 /\ last.res.cause = "Invalid data as line"
                 /\ last.res.line_number = i
                 /\ last.res.line = line
            ELSE /\ last.res.kind = "Read"
                 /\ last.res.cause = "serde_json"

C9_Witness ==
    /\ last.op = "get"
    /\ last.key = << "k" >>
    /\ last.res.kind = "Read"
    /\ last.res.line_number = 1
    /\ last.res.line = << "g", "a", "r", "b", "a", "g", "e" >>

(***************************************************************************)
(* C10.  Clone visibility: a get, contains or load_map that begins after   *)
(* a set or unset has returned Ok, through any clone, is computed over a   *)
(* log that includes the record of that write.                             *)
(***************************************************************************)
\* The text a read has read holds the bytes of a write, where they are in
\* the file.
ViewHolds(r, w) ==
    /\ r.view_from <= w.from
    /\ w.to <= r.view_from + Len(r.view)
    /\ SubSeq(r.view, w.from - r.view_from + 1, w.to - r.view_from)
           = w.key \o << "," >> \o w.text \o << "\n" >>

C10_ReadSeesReturnedWrites ==
    \A t \in Threads :
        (req[t].op \in ReadOps /\ pc[t] = "scanned")
            => \A i \in 1..req[t].begun : ViewHolds(req[t], done[i])

C10_Witness ==
    \E t \in Threads :
        /\ req[t].op = "get"
        /\ pc[t] = "scanned"
        /\ req[t].begun = 1
        /\ Len(done) = 2
        /\ req[t].res.kind = "Opt"
        /\ req[t].res.opt.some

(***************************************************************************)
(* C11.  Within one store and its clones the records are in the log in     *)
(* the order of the set/unset calls that wrote them: the record of a call  *)
(* that returned before another was made comes before the record of that   *)
(* other, and concurrent calls are in some total order, each as one whole  *)
(* record.                                                                 *)
(***************************************************************************)
\* The bytes of the file at the offsets of a write are its whole record.
WholeRecord(w) ==
    SubSeq(file, w.from + 1, w.to) = w.key \o << "," >> \o w.text \o << "\n" >>

C11_RecordsInCallOrder ==
    \A j \in 1..Len(done) :
        /\ WholeRecord(done[j])
        /\ \A i \in 1..done[j].after : done[i].to <= done[j].from
        /\ done[j].from = (IF j = 1 THEN 0 ELSE done[j - 1].to)

C11_Witness ==
    /\ Len(done) = 2
    /\ done[2].after = 0
    /\ \A t \in Threads : pc[t] = "idle"
    /\ Len(lines(file)) = 2

(***************************************************************************)
(* C12.  When two stores opened on one file append concurrently, each      *)
(* set/unset emits its whole line with a single write: the bytes of a      *)
(* record are never interleaved with those of another, and every line of   *)
(* the log is exactly one complete record.                                 *)
(***************************************************************************)
C12_WholeLinesAcrossHandles ==
    (\A t \in Threads : pc[t] = "idle") =>
        /\ Len(lines(file)) = Len(done)
        /\ \A j \in 1..Len(done) : WholeRecord(done[j])

(***************************************************************************)
(* C13.  Each successful set(K, V) extends the log by exactly the line     *)
(* K, a comma, the encoded V and a newline; each successful unset(K) by    *)
(* exactly K,null and a newline, also when K was never set.  So every      *)
(* line of a log written through the store has a key that satisfies the    *)
(* validator before its first comma, and no newline inside, even when the  *)
(* value text has commas.                                                  *)
(***************************************************************************)
\* Every line has a comma, and a valid key before its first comma.
LinesWellFormed(content) ==
    \A i \in 1..Len(lines(content)) :
        /\ HasComma(lines(content)[i])
        /\ ~HasBadChar(KeyOf(lines(content)[i]))

C13_OnDiskFormat ==
    [][/\ (last'.op = "set" /\ last'.res.kind = "Unit") =>
              file' = file \o last'.key \o << "," >>
                           \o to_string(last'.arg.v) \o << "\n" >>
       /\ (last'.op = "unset" /\ last'.res.kind = "Unit") =>
              file' = file \o last'.key \o << ",", "n", "u", "l", "l", "\n" >>
       /\ Len(lines(file')) = Len(hist')
       /\ file' # << >> => file'[Len(file')] = "\n"
       /\ LinesWellFormed(file')]_vars

C13_Witness ==
    /\ Len(hist) = 2
    /\ hist[1].op = "unset"
    /\ last.op = "set"
    /\ last.res.kind = "Unit"
    /\ last.arg.v.t = "str"
    /\ HasComma(last.arg.v.s)
    /\ HasComma(ValueOf(lines(file)[2]))

(***************************************************************************)
(* C14.  The get command prints the textual form of the value when the     *)
(* key is present, and an empty line when the key is absent (never         *)
(* written, or last written by unset).                                     *)
(***************************************************************************)
\* What the get command printed is the value of the last set of the key,
\* and the line given when there is none or an unset came after it.
CliGetPrints(absent) ==
    (last.op = "cli_get" /\ last.res.kind = "Printed") =>
        LET i == LastWriteTo(hist, last.key)
        IN  IF i = 0 \/ hist[i].op = "unset"
            THEN last.res.line = absent \o << "\n" >>
            ELSE last.res.line = to_string(hist[i].arg.v) \o << "\n" >>

\* C14 as stated: the line printed for an absent key is empty.
C14_GetPrintsEmptyLineWhenAbsent == CliGetPrints(<< >>)

\* C14 as the program has it: the line printed for an absent key is null.
C14_GetPrintsNullWhenAbsent == CliGetPrints(<< "n", "u", "l", "l" >>)

C14_Witness ==
    /\ last.op = "cli_get"
    /\ last.res.kind = "Printed"
    /\ Len(hist) = 2
    /\ hist[1].op = "set" /\ hist[1].key = last.key /\ hist[1].arg.v.t = "str"
    /\ hist[2].op = "unset" /\ hist[2].key = last.key

(***************************************************************************)
(* C15.  Scenario S3 on a new store: after set("k", "hello") and then      *)
(* unset("k"), with contains("k") true after the set and, after the        *)
(* unset, contains("k") false, get("k") absent and load_map() without k,   *)
(* the log file contains three lines.                                      *)
(***************************************************************************)
\* The reads of scenario S3 return what it says, and the log has n lines.
ScenarioS3(n) ==
    LET k == << "k" >>
        set_k == Write("set", k, Some(HELLO))
        unset_k == Write("unset", k, None)
    IN  /\ (hist = << set_k >> /\ last.op = "contains" /\ last.key = k) =>
               last.res = OkBool(TRUE)
        /\ hist = << set_k, unset_k >> =>
               /\ (last.op = "contains" /\ last.key = k) =>
                      last.res = OkBool(FALSE)
               /\ (last.op = "get" /\ last.key = k) => last.res = OkOpt(None)
               /\ last.op = "load_map" =>
                      last.res.kind = "Map" /\ k \notin DOMAIN last.res.map
               /\ Len(lines(file)) = n

\* C15 as stated: the log of scenario S3 has three lines.
C15_S3ThreeLines == ScenarioS3(3)

\* C15 as the program has it: the log of scenario S3 has two lines, the
\* record of the set and the tombstone.
C15_S3TwoLines ==
    /\ ScenarioS3(2)
    /\ hist = << Write("set", << "k" >>, Some(HELLO)),
                 Write("unset", << "k" >>, None) >> =>
           file = << "k", ",", "\"", "h", "e", "l", "l", "o", "\"", "\n",
                     "k", ",", "n", "u", "l", "l", "\n" >>

C15_Witness ==
    /\ hist = << Write("set", << "k" >>, Some(HELLO)),
                 Write("unset", << "k" >>, None) >>
    /\ last.op = "load_map"
    /\ last.res.kind = "Map"

(***************************************************************************)
(* C16.  If an append is interrupted after writing only a proper prefix    *)
(* of its record line, the partial trailing line is observed as a          *)
(* malformed line: every later get/contains/load_map fails with a Read     *)
(* error, and keeps failing after further appends, while the partial line  *)
(* is in the file; no scan returns a value derived from the partial line.  *)
(***************************************************************************)
C16_PartialLineFailsEveryRead ==
    (torn # NoTorn /\ LastIsRead) => last.res.kind = "Read"

\* Nothing was appended after the partial line.
TornIsLast == torn # NoTorn /\ Len(file) = torn.from + Len(torn.bytes)

\* What get of the key of the record returns, and load_map, when the
\* record is the last line of the log and its value text decodes as d:
\* the decoding error, else get the value and load_map a map that has
\* the value at the key, and has not the key when the value is null.
ReadsRecord(res, op, key, d) ==
    IF d.kind = "Read"
    THEN res.kind = "Read" /\ res.cause = "serde_json"
    ELSE IF op = "get" THEN res = OkOpt(d.opt)
    ELSE /\ res.kind = "Map"
         /\ IF d.opt.some
            THEN key \in DOMAIN res.map /\ res.map[key] = d.opt.v
            ELSE key \notin DOMAIN res.map

\* C16 as the program has it.  A partial line with no comma fails every
\* read with the Read error of that line, as long as nothing is appended
\* after it.  A partial line cut inside a character of more than one byte
\* is not UTF-8, and fails every read with the error of the reader, also
\* after further appends.  Any other partial line is read as a record
\* whose value text is the part that was written: contains of its key
\* reports it, get of its key and load_map decode it.  An append after a
\* partial line continues that line: it adds no line to the log.
C16_PartialLineWithoutCommaFailsReads ==
    /\ (TornIsLast /\ ~HasComma(torn.bytes) /\ LastIsRead) =>
           last.res = line_error(Len(hist), torn.bytes)
    /\ (torn # NoTorn /\ ~is_utf8(torn.bytes) /\ LastIsRead) =>
           last.res = read_err("io")
    /\ (TornIsLast /\ HasComma(torn.bytes) /\ is_utf8(torn.bytes)
          /\ last.op = "contains" /\ last.key = KeyOf(torn.bytes)) =>
           last.res = OkBool(ValueOf(torn.bytes) # << "n", "u", "l", "l" >>)
    /\ (TornIsLast /\ HasComma(torn.bytes) /\ is_utf8(torn.bytes)
          /\ \/ last.op = "get" /\ last.key = KeyOf(torn.bytes)
             \/ last.op = "load_map") =>
           ReadsRecord(last.res, last.op, KeyOf(torn.bytes),
                       from_str_option(elem, ValueOf(torn.bytes)))
    /\ torn # NoTorn =>
           Len(lines(file)) = Len(hist) + (IF TornIsLast THEN 1 ELSE 0)

C16_Witness ==
    /\ TornIsLast
    /\ ~HasComma(torn.bytes)
    /\ Len(hist) = 1
    /\ last.op = "get"
    /\ last.res.kind = "Read"

(***************************************************************************)
(* C17.  If the log has a record whose value text cannot be decoded as     *)
(* the element type, the scan is aborted with a Read error: every get(K),  *)
(* for any valid K, also a key other than that record's, and every         *)
(* load_map() returns a Read error.                                        *)
(***************************************************************************)
\* The keys of the records of the log whose value text does not decode:
\* it is not UTF-8, or no value of the element type.
UndecodableKeys ==
    {KeyOf(lines(file)[i]) : i \in
        {j \in 1..Len(lines(file)) :
            /\ HasComma(lines(file)[j])
            /\ \/ ~is_utf8(ValueOf(lines(file)[j]))
               \/ from_str_option(elem, ValueOf(lines(file)[j])).kind
                      = "Read"}}

\* Every line of the log is UTF-8.
AllLinesUtf8 == \A j \in 1..Len(lines(file)) : is_utf8(lines(file)[j])

AppendSteps ==
    {"write_key", "write_comma", "write_value", "write_newline", "written"}
ScanSteps == {"rewind", "read", "scanned"}

\* A thread that is in an append or in a scan holds the mutex.
MutexHeld == \A t \in Threads : pc[t] \in AppendSteps \cup ScanSteps => lock = t

\* What a scan has read is the records of the calls that returned, whole.
ScanSawWholeRecords ==
    \A t \in Threads :
        pc[t] = "scanned" =>
            /\ req[t].view_from = 0
            /\ req[t].view = file
            /\ Len(file) = (IF done = << >> THEN 0 ELSE done[Len(done)].to)
            /\ \A j \in 1..Len(done) : WholeRecord(done[j])

C18_MutualExclusion ==
    [][/\ MutexHeld'
       /\ ScanSawWholeRecords'
       /\ (\E t \in Threads : pc[t] \in ScanSteps) => file' = file]_vars

C18_Witness ==
    /\ pc["t1"] = "scanned"
    /\ req["t1"].view # << >>
    /\ pc["t2"] = "lock"
    /\ req["t2"].op = "set"

(***************************************************************************)
(* C19.  The log is append-only: the earlier contents of the log are a     *)
(* prefix of its contents in every later state.  open on a file that       *)
(* exists does not truncate it; every set/unset puts its bytes after all   *)
(* the records there are, wherever a scan before it left the cursor of     *)
(* the file; no operation changes or removes a record.                     *)
(***************************************************************************)
IsPrefix(a, b) == Len(a) <= Len(b) /\ SubSeq(b, 1, Len(a)) = a

C19_AppendOnly ==
    [][/\ last.op = "open" => file \in Seeds
       /\ IsPrefix(file, file')
       /\ (last'.op \in {"set", "unset"} /\ last'.res.kind = "Unit") =>
              /\ Len(file') > Len(file)
              /\ SubSeq(file', Len(file) + 1, Len(file')) =
                     last'.key \o << "," >>
                         \o to_string_option(last'.arg) \o << "\n" >>]_vars

C19_Witness ==
    /\ Len(hist) = 1
    /\ last.op = "set"
    /\ last.res.kind = "Unit"
    /\ \E seed \in Seeds :
           /\ IsPrefix(seed, file)
           /\ Len(file) > Len(seed)
           /\ cursor = Len(file)

(***************************************************************************)
(* C20.  Reads have no effect on the log: get, contains and load_map       *)
(* leave the contents of the log as they are, whether they return a        *)
(* result or an error, so the same read made again with no write in        *)
(* between returns the same result.                                        *)
(***************************************************************************)
C20_ReadsLeaveLog ==
    [][/\ last'.op \in ReadOps => file' = file
       /\ (last.op \in ReadOps /\ last'.op = last.op /\ last'.key = last.key)
              => last'.res = last.res]_vars

C20_Witness ==
    /\ last.op = "load_map"
    /\ last.res.kind = "Map"
    /\ DOMAIN last.res.map # {}
    /\ file \in Seeds
    /\ cursor = Len(file)

====
